---- MODULE Spec2Model ----
(***************************************************************************)
(* General Download Renamer: the filename utilities (filenameUtils.js) and *)
(* the background service worker's processDownload.                        *)
(*                                                                         *)
(* JavaScript strings are TLA+ strings (TLC evaluates Len, \o and SubSeq   *)
(* on them).  The JavaScript values undefined, null, true and false are    *)
(* strings that start with a backslash followed by letters, which no       *)
(* string drawn from the alphabets below equals.                           *)
(***************************************************************************)
EXTENDS Integers, Sequences, FiniteSets, TLC

VARIABLES
    isEnabled,           \* service-worker.js:38
    userPattern,         \* service-worker.js:39
    userSeparator,       \* service-worker.js:40
    categoryRules,       \* service-worker.js:41
    customPlaceholders,  \* service-worker.js:42
    downloadItem,        \* the download record handed to onDeterminingFilename
    now,                 \* what new Date() returns during the invocation
    suggested,           \* the filenames passed to suggest(), in call order
    console,             \* console.log / console.error entries, in order
    pc,                  \* the handler: "idle", "dispatched", "returned" or "threw"
    input,               \* argument record of a utility function under study
    output,              \* its successive return values
    storage,             \* chrome.storage.local: the value of each key
    changes,             \* storage.onChanged events not yet delivered, in order
    worker,              \* the service worker: "starting" until the storage
                         \* callback of line 45 has run, then "running"
    installer,           \* the onInstalled handler: what its storage get read
    tab,                 \* a web page with the content script injected
    editor               \* the options page

swVars == <<isEnabled, userPattern, userSeparator, categoryRules, customPlaceholders>>
dlVars == <<downloadItem, now, suggested, console, pc>>
fnVars == <<input, output>>
uiVars == <<tab, editor>>
envVars == <<storage, changes, worker, installer, tab, editor>>
vars == <<isEnabled, userPattern, userSeparator, categoryRules, customPlaceholders,
          downloadItem, now, suggested, console, pc, input, output,
          storage, changes, worker, installer, tab, editor>>

(***************************************************************************)
(* Bounds of the enumerated inputs.                                        *)
(***************************************************************************)
MaxLen == 3
MaxPieces == 3
MaxRules == 2
MaxDefs == 2
MaxPending == 1
MaxTimers == 2
NumTabs == 2

(***************************************************************************)
(* JavaScript values and string primitives.                                *)
(***************************************************************************)
undefined == "\\undefined"
null == "\\null"
true == "\\true"
false == "\\false"

\* ToBoolean: undefined, null, false and '' are falsy.
Truthy(v) == v \notin {undefined, null, false, ""}

\* a || b
Or(a, b) == IF Truthy(a) THEN a ELSE b

CharAt(s, i) == SubSeq(s, i, i)

Tail1(s) == SubSeq(s, 2, Len(s))

\* All strings of length at most n over the characters in alphabet.
RECURSIVE StringsUpTo(_, _)
StringsUpTo(alphabet, n) ==
    IF n = 0 THEN {""}
    ELSE LET shorter == StringsUpTo(alphabet, n - 1)
         IN  shorter \cup {s \o c : s \in shorter, c \in alphabet}

\* All sequences of length at most n over the elements of S.
RECURSIVE SeqsUpTo(_, _)
SeqsUpTo(S, n) ==
    IF n = 0 THEN {<<>>}
    ELSE LET shorter == SeqsUpTo(S, n - 1)
         IN  shorter \cup {Append(q, e) : q \in shorter, e \in S}

Least(S) == CHOOSE x \in S : \A y \in S : x <= y
Greatest(S) == CHOOSE x \in S : \A y \in S : x >= y

\* The 1-based positions of s whose character is in chars.
Positions(s, chars) == {i \in 1..Len(s) : CharAt(s, i) \in chars}

\* The string that has, for every character c of s in order, table[c] when
\* c is in the table's domain and c itself otherwise.
MapChars(table, s) ==
    LET f[i \in 0..Len(s)] ==
            IF i = 0 THEN ""
            ELSE f[i - 1] \o (IF CharAt(s, i) \in DOMAIN table
                              THEN table[CharAt(s, i)]
                              ELSE CharAt(s, i))
    IN  f[Len(s)]

UpperCase == "ABCDEFGHIJKLMNOPQRSTUVWXYZ"
LowerCase == "abcdefghijklmnopqrstuvwxyz"
Digits == {"0", "1", "2", "3", "4", "5", "6", "7", "8", "9"}
UpperSet == {CharAt(UpperCase, i) : i \in 1..Len(UpperCase)}
LowerSet == {CharAt(LowerCase, i) : i \in 1..Len(LowerCase)}
LowerOf ==
    [c \in UpperSet |->
        CharAt(LowerCase, CHOOSE i \in 1..Len(UpperCase) : CharAt(UpperCase, i) = c)]

LowerChar(c) == IF c \in UpperSet THEN LowerOf[c] ELSE c

\* String.prototype.toLowerCase
toLowerCase(s) ==
    IF Positions(s, UpperSet) = {} THEN s ELSE MapChars(LowerOf, s)

WhiteSpace == {" ", "\t"}

\* String.prototype.trim
trim(s) ==
    LET kept == {i \in 1..Len(s) : CharAt(s, i) \notin WhiteSpace}
    IN  IF kept = {} THEN "" ELSE SubSeq(s, Least(kept), Greatest(kept))

\* String.prototype.startsWith at position i (1-based)
StartsWithAt(s, t, i) ==
    /\ i + Len(t) - 1 <= Len(s)
    /\ SubSeq(s, i, i + Len(t) - 1) = t

\* String.prototype.includes
includes(s, t) == \E i \in 1..(Len(s) + 1) : StartsWithAt(s, t, i)

\* String.prototype.indexOf / lastIndexOf for a one-character needle,
\* 0-based as in JavaScript, -1 when absent.
indexOf(s, c) ==
    IF Positions(s, {c}) = {} THEN -1 ELSE Least(Positions(s, {c})) - 1

lastIndexOf(s, c) ==
    IF Positions(s, {c}) = {} THEN -1 ELSE Greatest(Positions(s, {c})) - 1

\* String.prototype.split for a one-character separator: the pieces between
\* successive occurrences of c; '' splits to [''].
split(s, c) ==
    LET cuts == Positions(s, {c})
        n == Cardinality(cuts)
        cut[k \in 0..(n + 1)] ==
            IF k = 0 THEN 0
            ELSE IF k = n + 1 THEN Len(s) + 1
            ELSE CHOOSE i \in cuts : Cardinality({j \in cuts : j < i}) = k - 1
    IN  [k \in 1..(n + 1) |-> SubSeq(s, cut[k - 1] + 1, cut[k] - 1)]

\* Array.prototype.join with a string separator.
RECURSIVE joinWith(_, _)
joinWith(arr, sep) ==
    IF arr = <<>> THEN ""
    ELSE IF Len(arr) = 1 THEN arr[1]
    ELSE arr[1] \o sep \o joinWith(Tail(arr), sep)

\* Array.prototype.join(separator): an undefined separator means ','; any
\* other value is converted with String().
join(arr, sep) ==
    joinWith(arr, IF sep = undefined THEN ","
                  ELSE IF sep = null THEN "null" ELSE sep)

\* String(n).padStart(2, '0') for a non-negative integer n
padStart2(n) == IF n < 10 THEN "0" \o ToString(n) ELSE ToString(n)

(***************************************************************************)
(* filenameUtils.js                                                        *)
(***************************************************************************)
InvalidChars == {"/", "\\", ":", "*", "?", "\"", "<", ">", "|"}

\* filename.replace(/[\/\\:*?"<>|]/g, '_')
replaceInvalid == [c \in InvalidChars |-> "_"]

replaceInvalidButPipe == [c \in InvalidChars \ {"|"} |-> "_"]

sanitizeFilename_firstOnly(filename) ==
    IF Positions(filename, InvalidChars) = {} THEN filename
    ELSE LET k == Least(Positions(filename, InvalidChars))
         IN  SubSeq(filename, 1, k - 1) \o "_" \o SubSeq(filename, k + 1, Len(filename))

sanitizeFilename_noPipe(filename) == MapChars(replaceInvalidButPipe, filename)

sanitizeFilename(filename) == MapChars(replaceInvalid, filename)

\* The value standing for a thrown TypeError.
TypeError == "\\TypeError"

SpecialSchemes == {"http", "https", "ftp", "ws", "wss"}

\* The prefix of s before the first character that is in stops.
takeUntil(s, stops) ==
    IF Positions(s, stops) = {} THEN s
    ELSE SubSeq(s, 1, Least(Positions(s, stops)) - 1)

\* new URL(url).hostname for the URL shapes drawn here: a string without a
\* scheme (the constructor throws), scheme://authority/... (the lower-cased
\* host) and scheme:opaque (the hostname is '').  The result is TypeError
\* when the constructor throws.
urlHostname(url) ==
    LET colon == indexOf(url, ":")
        scheme == IF colon > 0 THEN toLowerCase(SubSeq(url, 1, colon)) ELSE ""
        rest == IF colon > 0 THEN SubSeq(url, colon + 2, Len(url)) ELSE ""
        authority == IF StartsWithAt(rest, "//", 1)
                     THEN takeUntil(SubSeq(rest, 3, Len(rest)), {"/", "?", "#"})
                     ELSE ""
        at == lastIndexOf(authority, "@")
        hostport == SubSeq(authority, at + 2, Len(authority))
        host == toLowerCase(takeUntil(hostport, {":"}))
    IN  IF colon <= 0 \/ CharAt(scheme, 1) \notin LowerSet
        THEN TypeError
        ELSE IF scheme \in SpecialSchemes /\ host = "" THEN TypeError
        ELSE host

\* extractDomain: the hostname, or 'unknown' when new URL throws.
extractDomain(url) ==
    IF urlHostname(url) = TypeError THEN "unknown" ELSE urlHostname(url)

\* getFormattedDate / getFormattedTime / getFormattedTimestamp for the clock
\* reading d = [year, month (0-based), date, hours, minutes, seconds].
getFormattedDate(d) == ToString(d.year) \o padStart2(d.month + 1) \o padStart2(d.date)

getFormattedTime(d) == padStart2(d.hours) \o padStart2(d.minutes) \o padStart2(d.seconds)

getFormattedTimestamp(d) == getFormattedDate(d) \o "-" \o getFormattedTime(d)

splitFilename_firstDot(filename) ==
    LET firstDotIndex == indexOf(filename, ".")
    IN  IF firstDotIndex <= 0
        THEN [name |-> filename, ext |-> ""]
        ELSE [name |-> SubSeq(filename, 1, firstDotIndex),
              ext |-> SubSeq(filename, firstDotIndex + 1, Len(filename))]

splitFilename(filename) ==
    LET lastDotIndex == lastIndexOf(filename, ".")
    IN  IF lastDotIndex <= 0
        THEN [name |-> filename, ext |-> ""]
        ELSE [name |-> SubSeq(filename, 1, lastDotIndex),
              ext |-> SubSeq(filename, lastDotIndex + 1, Len(filename))]

\* pattern.match(/\{([^}]+)\}/g) || []: the matched substrings, left to right.
RECURSIVE matchTokens(_)
matchTokens(s) ==
    IF s = "" THEN <<>>
    ELSE IF CharAt(s, 1) # "{" THEN matchTokens(Tail1(s))
    ELSE LET close == indexOf(Tail1(s), "}")
         IN  IF close >= 1
             THEN <<SubSeq(s, 1, close + 2)>> \o matchTokens(SubSeq(s, close + 3, Len(s)))
             ELSE matchTokens(Tail1(s))

\* p.slice(1, -1)
stripBraces(p) == SubSeq(p, 2, Len(p) - 1)

mapStripBraces(tokens) == [i \in 1..Len(tokens) |-> stripBraces(tokens[i])]

isNotExt(p) == p # "ext"

\* Step 1 of processPattern: the ordered placeholder names, without 'ext'.
placeholdersInPattern_keepExt(pattern) == mapStripBraces(matchTokens(pattern))

placeholdersInPattern(pattern) ==
    SelectSeq(mapStripBraces(matchTokens(pattern)), isNotExt)

\* values[ph] on a value bag (a function from names to values)
Get(values, ph) == IF ph \in DOMAIN values THEN values[ph] ELSE undefined

\* values[name] = v
Put(values, name, v) ==
    [k \in DOMAIN values \cup {name} |-> IF k = name THEN v ELSE values[k]]

isNotEmpty(v) == v # ""

\* Step 2: v !== undefined && v !== null ? String(v) : ''
processedValues(pattern, values) ==
    LET phs == placeholdersInPattern(pattern)
    IN  [i \in 1..Len(phs) |->
           LET v == Get(values, phs[i])
           IN  IF v # undefined /\ v # null THEN v ELSE ""]

\* Step 3: the join, with the empty strings filtered out unless the separator
\* is ''.
joinedString_noFilter(pattern, values, separator) ==
    join(processedValues(pattern, values), separator)

joinedString(pattern, values, separator) ==
    IF separator = ""
    THEN join(processedValues(pattern, values), "")
    ELSE join(SelectSeq(processedValues(pattern, values), isNotEmpty), separator)

\* Step 4: values['ext'] || ''
extensionOf(values) == Or(Get(values, "ext"), "")

\* processPattern; TypeError when pattern is not a string (pattern.match
\* is then not callable).
processPattern_extJoined(pattern, values, separator) ==
    IF pattern \in {undefined, null} THEN TypeError
    ELSE IF extensionOf(values) = "" \/ joinedString(pattern, values, separator) = ""
         THEN joinedString(pattern, values, separator) \o extensionOf(values)
         ELSE join(<<joinedString(pattern, values, separator), extensionOf(values)>>,
                   separator)

processPattern(pattern, values, separator) ==
    IF pattern \in {undefined, null} THEN TypeError
    ELSE joinedString(pattern, values, separator) \o extensionOf(values)

DEFAULT_CATEGORY_RULES == <<
    [name |-> "Documents", extensions |-> "pdf,doc,docx,odt,rtf,txt,md"],
    [name |-> "Spreadsheets", extensions |-> "xls,xlsx,csv,ods,xml"],
    [name |-> "Presentations", extensions |-> "ppt,pptx,odp"],
    [name |-> "Images", extensions |-> "jpg,jpeg,png,gif,bmp,svg,webp,heic,heif"],
    [name |-> "Design & RAW", extensions |-> "psd,ai,eps,indd,sketch,fig,cr2,nef,arw,dng"],
    [name |-> "Audio", extensions |-> "mp3,wav,aac,flac,m4a,ogg"],
    [name |-> "Videos", extensions |-> "mp4,mov,avi,mkv,wmv,flv,webm"],
    [name |-> "Archives", extensions |-> "zip,rar,7z,tar,gz,bz2"],
    [name |-> "Code", extensions |-> "html,css,js,json,py,java,cpp,sh,ps1"],
    [name |-> "Installers", extensions |-> "exe,dmg,pkg,msi,deb,app"],
    [name |-> "Fonts", extensions |-> "ttf,otf,woff,woff2"] >>

\* A rule list that is undefined or null (no array at all): a one-element
\* list whose rule has no fields, which no stored rule equals.
undefinedArray == <<[name |-> undefined, extensions |-> undefined]>>

isArray(v) == v # undefinedArray

\* rule.extensions.split(',').map(e => e.trim().toLowerCase())
ruleExtensions_noTrim(rule) ==
    LET parts == split(rule.extensions, ",")
    IN  [i \in 1..Len(parts) |-> toLowerCase(parts[i])]

ruleExtensions(rule) ==
    LET parts == split(rule.extensions, ",")
    IN  [i \in 1..Len(parts) |-> toLowerCase(trim(parts[i]))]

ruleMatches_substring(rule, extension) ==
    /\ Truthy(rule.name)
    /\ Truthy(rule.extensions)
    /\ includes(toLowerCase(rule.extensions), extension)

\* The body of the for loop: does this rule return its name?
ruleMatches(rule, extension) ==
    /\ Truthy(rule.name)
    /\ Truthy(rule.extensions)
    /\ LET extensions == ruleExtensions(rule)
       IN  \E i \in 1..Len(extensions) : extensions[i] = extension

\* for (const rule of rules) { ... return rule.name } return fallbackCategory
RECURSIVE findCategory_lastWins(_, _)
findCategory_lastWins(rules, extension) ==
    IF rules = <<>> THEN "unknown"
    ELSE IF ruleMatches(rules[Len(rules)], extension) THEN rules[Len(rules)].name
    ELSE findCategory_lastWins(SubSeq(rules, 1, Len(rules) - 1), extension)

RECURSIVE findCategory(_, _)
findCategory(rules, extension) ==
    IF rules = <<>> THEN "unknown"
    ELSE IF ruleMatches(Head(rules), extension) THEN Head(rules).name
    ELSE findCategory(Tail(rules), extension)

fileExtension_wholeName(filename) ==
    LET ext == splitFilename(filename).ext
    IN  IF ext = "" THEN toLowerCase(filename)
        ELSE toLowerCase(SubSeq(ext, 2, Len(ext)))

\* The lower-cased extension without its dot.
fileExtension(filename) ==
    LET ext == splitFilename(filename).ext
    IN  IF StartsWithAt(ext, ".", 1)
        THEN toLowerCase(SubSeq(ext, 2, Len(ext)))
        ELSE toLowerCase(ext)

getCategoryForFile(filename, customRules) ==
    IF ~Truthy(filename) THEN "unknown"
    ELSE LET extension == fileExtension(filename)
             rules == IF isArray(customRules) /\ Len(customRules) > 0
                      THEN customRules
                      ELSE DEFAULT_CATEGORY_RULES
         IN  IF ~Truthy(extension) THEN "unknown"
             ELSE findCategory(rules, extension)

(***************************************************************************)
(* service-worker.js: constants and the state before any event.            *)
(***************************************************************************)
DEFAULT_PATTERN == "{date}{originalFilename}{ext}"
DEFAULT_SEPARATOR == "_"

\* Lines 23-35: the service worker's own copy of the default rules.
DEFAULT_CATEGORY_RULES_SW == <<
    [name |-> "Documents", extensions |-> "pdf,doc,docx,odt,rtf,txt,md"],
    [name |-> "Spreadsheets", extensions |-> "xls,xlsx,csv,ods,xml"],
    [name |-> "Presentations", extensions |-> "ppt,pptx,odp"],
    [name |-> "Images", extensions |-> "jpg,jpeg,png,gif,bmp,svg,webp,heic,heif"],
    [name |-> "Design & RAW", extensions |-> "psd,ai,eps,indd,sketch,fig,cr2,nef,arw,dng"],
    [name |-> "Audio", extensions |-> "mp3,wav,aac,flac,m4a,ogg"],
    [name |-> "Videos", extensions |-> "mp4,mov,avi,mkv,wmv,flv,webm"],
    [name |-> "Archives", extensions |-> "zip,rar,7z,tar,gz,bz2"],
    [name |-> "Code", extensions |-> "html,css,js,json,py,java,cpp,sh,ps1"],
    [name |-> "Installers", extensions |-> "exe,dmg,pkg,msi,deb,app"],
    [name |-> "Fonts", extensions |-> "ttf,otf,woff,woff2"] >>

\* Lines 38-42: the module-level state as the script leaves it.
swInitial ==
    /\ isEnabled = true
    /\ userPattern = DEFAULT_PATTERN
    /\ userSeparator = DEFAULT_SEPARATOR
    /\ categoryRules = <<>>
    /\ customPlaceholders = <<>>

\* chrome.storage.local holds a value for each key that was set; a key
\* that was never set reads as undefined (for the two list-valued keys: as
\* the list that is no array).
StorageKeys == {"enabled", "pattern", "separator", "categoryRules", "customPlaceholders"}

undefinedDefinitions ==
    <<[name |-> undefined, base |-> undefined, regex |-> undefined, keywords |-> undefined]>>

isDefinitionArray(v) == v # undefinedDefinitions

emptyStorage ==
    [enabled |-> undefined, pattern |-> undefined, separator |-> undefined,
     categoryRules |-> undefinedArray, customPlaceholders |-> undefinedDefinitions]

\* Nothing stored, no event under way, the script has just been loaded.
\* No install or update event has been raised.
installerIdle ==
    [state |-> "idle",
     result |-> [enabled |-> undefined, pattern |-> undefined, separator |-> undefined]]

\* The page is not open.
pageClosed == [open |-> FALSE]

envInitial ==
    /\ storage = emptyStorage
    /\ changes = <<>>
    /\ worker = "starting"
    /\ installer = installerIdle
    /\ tab = pageClosed
    /\ editor = pageClosed

\* No download has been dispatched.
dlInitial ==
    /\ downloadItem = [filename |-> "", url |-> "", referrer |-> ""]
    /\ now = [year |-> 2024, month |-> 0, date |-> 15,
              hours |-> 9, minutes |-> 5, seconds |-> 0]
    /\ suggested = <<>>
    /\ console = <<>>
    /\ pc = "idle"

(***************************************************************************)
(* service-worker.js: processDownload.                                     *)
(***************************************************************************)
\* new RegExp(regexStr) and sourceValue.match(re) for the regular
\* expressions used here.  The result is [error, matched, group1]: error
\* when the constructor throws a SyntaxError, matched when m is not null,
\* group1 = m[1] (undefined without a capture group).
upperRunEnd(s, i) ==
    CHOOSE j \in i..Len(s) :
        /\ \A k \in i..j : CharAt(s, k) \in UpperSet
        /\ j = Len(s) \/ CharAt(s, j + 1) \notin UpperSet

digitRunEnd(s, i) ==
    CHOOSE j \in i..Len(s) :
        /\ \A k \in i..j : CharAt(s, k) \in Digits
        /\ j = Len(s) \/ CharAt(s, j + 1) \notin Digits

\* Start positions where [A-Z]+-\d+ matches.
keyStarts(s) ==
    {i \in 1..Len(s) :
        /\ CharAt(s, i) \in UpperSet
        /\ upperRunEnd(s, i) + 2 <= Len(s)
        /\ CharAt(s, upperRunEnd(s, i) + 1) = "-"
        /\ CharAt(s, upperRunEnd(s, i) + 2) \in Digits}

digitStarts(s) == {i \in 1..Len(s) : CharAt(s, i) \in Digits}

noMatch == [error |-> FALSE, matched |-> FALSE, group1 |-> undefined]

regExpMatch(regexStr, s) ==
    CASE regexStr = "(" ->
            [error |-> TRUE, matched |-> FALSE, group1 |-> undefined]
      [] regexStr = "()" ->
            [error |-> FALSE, matched |-> TRUE, group1 |-> ""]
      [] regexStr = "\\d+" ->
            IF digitStarts(s) = {} THEN noMatch
            ELSE [error |-> FALSE, matched |-> TRUE, group1 |-> undefined]
      [] regexStr = "(\\d+)" ->
            IF digitStarts(s) = {} THEN noMatch
            ELSE LET i == Least(digitStarts(s))
                 IN  [error |-> FALSE, matched |-> TRUE,
                      group1 |-> SubSeq(s, i, digitRunEnd(s, i))]
      [] regexStr = "([A-Z]+-\\d+)" ->
            IF keyStarts(s) = {} THEN noMatch
            ELSE LET i == Least(keyStarts(s))
                 IN  [error |-> FALSE, matched |-> TRUE,
                      group1 |-> SubSeq(s, i, digitRunEnd(s, upperRunEnd(s, i) + 2))]

\* Lines 164-167: keywordsRaw.split(',').map(k => k.trim()).filter(k => k.length > 0)
keywordList(keywordsRaw) ==
    LET parts == split(keywordsRaw, ",")
        trimmed == [i \in 1..Len(parts) |-> trim(parts[i])]
    IN  SelectSeq(trimmed, isNotEmpty)

gatePass_caseSensitive(keywords, sourceValue) ==
    IF Len(keywords) = 0 THEN TRUE
    ELSE \E i \in 1..Len(keywords) : includes(sourceValue, keywords[i])

\* Lines 169-171
gatePass(keywords, sourceValue) ==
    IF Len(keywords) = 0 THEN TRUE
    ELSE \E i \in 1..Len(keywords) :
            includes(toLowerCase(sourceValue), toLowerCase(keywords[i]))

\* Lines 148-185: one iteration of the loop over customPlaceholders, on the
\* bag and the console so far.
applyDefinition(acc, def) ==
    LET name == IF Truthy(def.name) THEN def.name ELSE ""
        from == IF Truthy(def.base) THEN def.base ELSE ""
        regexStr == IF Truthy(def.regex) THEN def.regex ELSE ""
        keywordsRaw == IF def.keywords # undefined THEN def.keywords ELSE ""
        sourceValue == Or(Get(acc.placeholders, from), "")
        m == regExpMatch(regexStr, sourceValue)
    IN  IF name = "" \/ from = "" \/ regexStr = "" THEN acc
        ELSE IF ~Truthy(sourceValue)
        THEN [acc EXCEPT !.placeholders = Put(@, name, "")]
        ELSE IF ~gatePass(keywordList(keywordsRaw), sourceValue)
        THEN [acc EXCEPT !.placeholders = Put(@, name, "")]
        ELSE IF m.error
        THEN [placeholders |-> Put(acc.placeholders, name, ""),
              console |-> Append(acc.console, "Invalid custom placeholder regex:")]
        ELSE [acc EXCEPT !.placeholders =
                Put(@, name, IF m.matched /\ Truthy(m.group1) THEN m.group1 ELSE "")]

RECURSIVE applyDefinitions_stopAtBadRegex(_, _)
applyDefinitions_stopAtBadRegex(acc, defs) ==
    IF defs = <<>> THEN acc
    ELSE IF Len(applyDefinition(acc, Head(defs)).console) > Len(acc.console)
    THEN applyDefinition(acc, Head(defs))
    ELSE applyDefinitions_stopAtBadRegex(applyDefinition(acc, Head(defs)), Tail(defs))

RECURSIVE applyDefinitions_lastFirst(_, _)
applyDefinitions_lastFirst(acc, defs) ==
    IF defs = <<>> THEN acc
    ELSE applyDefinition(applyDefinitions_lastFirst(acc, Tail(defs)), Head(defs))

\* Lines 146-187: the loop, in list order.
RECURSIVE applyDefinitions(_, _)
applyDefinitions(acc, defs) ==
    IF defs = <<>> THEN acc
    ELSE applyDefinitions(applyDefinition(acc, Head(defs)), Tail(defs))

\* Lines 113-143: the built-in placeholder values of a download.
builtinPlaceholders(item, d) ==
    LET originalFilename == item.filename
        parts == splitFilename(originalFilename)
        sourceUrl == Or(item.url, "")
        tabUrl == Or(item.referrer, "")
    IN  [domain |-> extractDomain(sourceUrl),
         timestamp |-> getFormattedTimestamp(d),
         date |-> getFormattedDate(d),
         time |-> getFormattedTime(d),
         originalFilename |-> parts.name,
         category |-> getCategoryForFile(originalFilename, categoryRules),
         sourceUrl |-> sourceUrl,
         tabUrl |-> tabUrl,
         ext |-> parts.ext]

\* Line 28 (inside extractDomain, called at line 118): what the catch logs.
extractDomainLog(sourceUrl) ==
    IF urlHostname(sourceUrl) = TypeError
    THEN <<"Error extracting domain:">> ELSE <<>>

tryFromLine193_noSanitize(derived, newFilename) ==
    IF newFilename = TypeError
    THEN [threw |-> TRUE, suggested |-> <<>>, console |-> derived.console,
          placeholders |-> derived.placeholders]
    ELSE [threw |-> FALSE,
          suggested |-> <<newFilename>>,
          console |-> Append(derived.console, "Renaming:"),
          placeholders |-> derived.placeholders]

\* Lines 193-198: sanitize the new filename, log and suggest it.  The result
\* of the try block is [threw, suggested, console, placeholders].
tryFromLine193(derived, newFilename) ==
    IF newFilename = TypeError
    THEN [threw |-> TRUE, suggested |-> <<>>, console |-> derived.console,
          placeholders |-> derived.placeholders]
    ELSE [threw |-> FALSE,
          suggested |-> <<sanitizeFilename(newFilename)>>,
          console |-> Append(derived.console, "Renaming:"),
          placeholders |-> derived.placeholders]

\* Lines 190-198: processPattern throws at line 190 when userPattern is no
\* string.
tryFromLine190(derived) ==
    tryFromLine193(derived,
                   processPattern(userPattern, derived.placeholders, userSeparator))

\* Lines 146-198: the custom placeholders, when there are any.
tryFromLine146(acc) ==
    tryFromLine190(IF Len(customPlaceholders) > 0
                   THEN applyDefinitions(acc, customPlaceholders)
                   ELSE acc)

\* Lines 130-198: categoryRules.length throws at line 130 when categoryRules
\* is no array.
tryFromLine130(log118, base) ==
    IF ~isArray(categoryRules)
    THEN [threw |-> TRUE, suggested |-> <<>>, console |-> log118,
          placeholders |-> base]
    ELSE tryFromLine146([placeholders |-> base,
                         console |-> log118 \o <<"File category determined:">>])

\* Lines 111-198, the try block.
tryBlock(item, d) ==
    tryFromLine130(extractDomainLog(Or(item.url, "")), builtinPlaceholders(item, d))

disabled_never == FALSE

\* Line 106: !isEnabled
disabled == ~Truthy(isEnabled)

\* Lines 199-203, the catch block, after the try block's effects t.
catchBlock_noSuggest(t, item) ==
    [t EXCEPT !.console = Append(@, "Error processing download:")]

catchBlock(t, item) ==
    [t EXCEPT !.console = Append(@, "Error processing download:"),
              !.suggested = Append(@, item.filename)]

\* Lines 111-203: try { ... } catch (error) { ... }; nothing leaves it.
tryCatch(t, item) ==
    IF t.threw
    THEN [threw |-> FALSE, suggested |-> catchBlock(t, item).suggested,
          console |-> catchBlock(t, item).console]
    ELSE [threw |-> FALSE, suggested |-> t.suggested, console |-> t.console]

\* processDownload(downloadItem, suggest): what it passes to suggest and
\* logs, and whether it returns or throws.
processDownload(item, d) ==
    IF disabled
    THEN [threw |-> FALSE, suggested |-> <<item.filename>>, console |-> <<>>]
    ELSE tryCatch(tryBlock(item, d), item)

(***************************************************************************)
(* Downloads: one onDeterminingFilename event per behaviour, dispatched to *)
(* processDownload under a cached configuration.                           *)
(***************************************************************************)
jiraDef == [name |-> "jira_id", base |-> "tabUrl",
            regex |-> "([A-Z]+-\\d+)", keywords |-> "browse, jira"]
gatedDef == [name |-> "jira_id", base |-> "tabUrl",
             regex |-> "([A-Z]+-\\d+)", keywords |-> "nomatch"]
malformedDef == [name |-> "jira_id", base |-> "tabUrl", regex |-> "(", keywords |-> ""]
numDef == [name |-> "num", base |-> "jira_id", regex |-> "(\\d+)", keywords |-> ""]
tabNumDef == [name |-> "num", base |-> "tabUrl", regex |-> "(\\d+)", keywords |-> "jira"]
noMatchDef == [name |-> "jira_id", base |-> "domain", regex |-> "(\\d+)", keywords |-> ""]
emptyGroupDef == [name |-> "num", base |-> "tabUrl", regex |-> "()", keywords |-> ""]
\* The options page accepts any name, also the name of a built-in value.
extDef == [name |-> "ext", base |-> "tabUrl", regex |-> "(\\d+)", keywords |-> ""]

CachedPatterns ==
    {DEFAULT_PATTERN,
     "{category}_{date}_{originalFilename}{ext}",
     "{num}{jira_id}{originalFilename}{ext}",
     "{domain}{sourceUrl}{tabUrl}{timestamp}{time}{ext}",
     "{ext}",
     "",
     undefined}

CachedSeparators == {"_", "", ":", undefined}

CachedRuleLists ==
    {<<>>,
     DEFAULT_CATEGORY_RULES,
     <<[name |-> "My/Docs", extensions |-> "PDF, txt"]>>,
     undefinedArray}

CachedDefinitionLists ==
    {<<>>, <<jiraDef>>, <<gatedDef>>, <<malformedDef, numDef>>, <<jiraDef, numDef>>,
     <<malformedDef, tabNumDef>>, <<noMatchDef, emptyGroupDef>>, <<extDef>>}

DownloadItems ==
    {[filename |-> f, url |-> u, referrer |-> r] :
        f \in {"quarterly-report.pdf", "report.PDF", "archive", "v1.2.tar.gz"},
        u \in {undefined, "https://Example.com/f/a.pdf?x=1", "data:text/plain,hi"},
        r \in {undefined, "https://jira.io/browse/ABC-123"}}

Clocks ==
    {[year |-> 2024, month |-> 0, date |-> 15, hours |-> 9, minutes |-> 5, seconds |-> 0],
     [year |-> 2023, month |-> 11, date |-> 31, hours |-> 23, minutes |-> 59, seconds |-> 59]}

Init ==
    /\ isEnabled \in {true, false, undefined}
    /\ userPattern \in CachedPatterns
    /\ userSeparator \in CachedSeparators
    /\ categoryRules \in CachedRuleLists
    /\ customPlaceholders \in CachedDefinitionLists
    /\ downloadItem \in DownloadItems
    /\ now \in Clocks
    /\ suggested = <<>>
    /\ console = <<>>
    /\ pc = "dispatched"
    /\ input = [fn |-> "none"]
    /\ output = <<>>
    /\ envInitial

ProcessDownload_savesDefaults ==
    /\ pc = "dispatched"
    /\ \E r \in {processDownload(downloadItem, now)} :
           /\ suggested' = r.suggested
           /\ console' = r.console
           /\ pc' = IF r.threw THEN "threw" ELSE "returned"
    /\ categoryRules' = IF categoryRules = <<>>
                        THEN DEFAULT_CATEGORY_RULES_SW ELSE categoryRules
    /\ UNCHANGED <<isEnabled, userPattern, userSeparator, customPlaceholders,
                   downloadItem, now, fnVars, envVars>>

\* chrome.downloads.onDeterminingFilename calls processDownload (line 252).
ProcessDownload ==
    /\ pc = "dispatched"
    /\ \E r \in {processDownload(downloadItem, now)} :
           /\ suggested' = r.suggested
           /\ console' = r.console
           /\ pc' = IF r.threw THEN "threw" ELSE "returned"
    /\ UNCHANGED <<swVars, downloadItem, now, fnVars, envVars>>

Next == ProcessDownload

Spec == Init /\ [][Next]_vars

(***************************************************************************)
(* The service worker among its events: the storage callback of line 45,   *)
(* storage.onChanged events, downloads, and the pages that write the       *)
(* storage (options page, in-page popup, onInstalled).  Each handler is    *)
(* one step: none of them awaits.                                          *)
(***************************************************************************)
\* chrome.storage.local.set(items) for the keys in keys, with their values
\* in values: the stored record afterwards, and the keys whose value differs
\* from the stored one (onChanged reports only those).
written(keys, values) ==
    [k \in StorageKeys |-> IF k \in keys THEN values[k] ELSE storage[k]]

changedKeys(keys, values) == {k \in keys : values[k] # storage[k]}

changeEvent(keys, values) ==
    [keys |-> changedKeys(keys, values),
     newValue |-> [k \in StorageKeys |->
                     IF k \in changedKeys(keys, values) THEN values[k] ELSE emptyStorage[k]]]

storageSet(keys, values) ==
    /\ storage' = written(keys, values)
    /\ changes' = IF changedKeys(keys, values) = {} THEN changes
                  ELSE Append(changes, changeEvent(keys, values))

\* options.js resetToDefaultCategories: const defaultRules
defaultRules == <<
    [name |-> "Documents", extensions |-> "pdf,doc,docx,odt,rtf,txt,md"],
    [name |-> "Spreadsheets", extensions |-> "xls,xlsx,csv,ods,xml"],
    [name |-> "Presentations", extensions |-> "ppt,pptx,odp"],
    [name |-> "Images", extensions |-> "jpg,jpeg,png,gif,bmp,svg,webp,heic,heif"],
    [name |-> "Design & RAW", extensions |-> "psd,ai,eps,indd,sketch,fig,cr2,nef,arw,dng"],
    [name |-> "Audio", extensions |-> "mp3,wav,aac,flac,m4a,ogg"],
    [name |-> "Videos", extensions |-> "mp4,mov,avi,mkv,wmv,flv,webm"],
    [name |-> "Archives", extensions |-> "zip,rar,7z,tar,gz,bz2"],
    [name |-> "Code", extensions |-> "html,css,js,json,py,java,cpp,sh,ps1"],
    [name |-> "Installers", extensions |-> "exe,dmg,pkg,msi,deb,app"],
    [name |-> "Fonts", extensions |-> "ttf,otf,woff,woff2"] >>

SavedSettings ==
    {[pattern |-> "{category}{originalFilename}{ext}", separator |-> "-"],
     [pattern |-> "{jira_id}{date}{ext}", separator |-> ""]}

SavedRuleLists == {<<[name |-> "Reports", extensions |-> "pdf"]>>}

SavedDefinitionLists == {<<jiraDef>>}

\* The storage a starting worker finds: nothing (first run), or what an
\* earlier run and the options page left.
InitialStorages ==
    {emptyStorage,
     [enabled |-> true, pattern |-> DEFAULT_PATTERN, separator |-> DEFAULT_SEPARATOR,
      categoryRules |-> <<[name |-> "Reports", extensions |-> "pdf"]>>,
      customPlaceholders |-> undefinedDefinitions],
     [enabled |-> false, pattern |-> DEFAULT_PATTERN, separator |-> DEFAULT_SEPARATOR,
      categoryRules |-> DEFAULT_CATEGORY_RULES_SW,
      customPlaceholders |-> undefinedDefinitions]}

WorkerDownloads ==
    {[filename |-> "report.PDF", url |-> "https://Example.com/f/a.pdf?x=1",
      referrer |-> "https://jira.io/browse/ABC-123"]}

InitWorker ==
    /\ swInitial /\ dlInitial
    /\ storage \in InitialStorages
    /\ changes = <<>>
    /\ worker = "starting"
    /\ installer = installerIdle
    /\ tab = pageClosed
    /\ editor = pageClosed
    /\ input = [fn |-> "none"]
    /\ output = <<>>

\* Lines 45-69: the callback of chrome.storage.local.get.
StorageInit_noDefaultRules ==
    /\ worker = "starting"
    /\ isEnabled' = IF storage.enabled # undefined THEN storage.enabled ELSE true
    /\ userPattern' = Or(storage.pattern, DEFAULT_PATTERN)
    /\ userSeparator' = IF storage.separator # undefined
                        THEN storage.separator ELSE DEFAULT_SEPARATOR
    /\ categoryRules' = IF isArray(storage.categoryRules)
                        THEN storage.categoryRules ELSE <<>>
    /\ customPlaceholders' = IF isDefinitionArray(storage.customPlaceholders)
                             THEN storage.customPlaceholders ELSE <<>>
    /\ worker' = "running"
    /\ UNCHANGED <<dlVars, fnVars, storage, changes, installer, uiVars>>

StorageInit ==
    /\ worker = "starting"
    /\ isArray(storage.categoryRules) \/ Len(changes) < MaxPending
    /\ isEnabled' = IF storage.enabled # undefined THEN storage.enabled ELSE true
    /\ userPattern' = Or(storage.pattern, DEFAULT_PATTERN)
    /\ userSeparator' = IF storage.separator # undefined
                        THEN storage.separator ELSE DEFAULT_SEPARATOR
    /\ IF isArray(storage.categoryRules)
       THEN /\ categoryRules' = storage.categoryRules
            /\ UNCHANGED <<storage, changes>>
       ELSE /\ categoryRules' = DEFAULT_CATEGORY_RULES_SW
            /\ storageSet({"categoryRules"},
                          [emptyStorage EXCEPT !.categoryRules = DEFAULT_CATEGORY_RULES_SW])
    /\ customPlaceholders' = IF isDefinitionArray(storage.customPlaceholders)
                             THEN storage.customPlaceholders ELSE <<>>
    /\ worker' = "running"
    /\ UNCHANGED <<dlVars, fnVars, installer, uiVars>>

\* Lines 72-97: the storage.onChanged listener on one event.  Line 90 reads
\* categoryRules.length: with a new value that is no array it throws and
\* the lines after it do not run.
OnChanged_oneKeyPerEvent ==
    /\ changes # <<>>
    /\ \E c \in {Head(changes)} : \E k \in {CHOOSE k \in c.keys : TRUE} :
        /\ isEnabled' = IF k = "enabled" THEN c.newValue.enabled ELSE isEnabled
        /\ userPattern' = IF k = "pattern" THEN c.newValue.pattern ELSE userPattern
        /\ userSeparator' = IF k = "separator" THEN c.newValue.separator ELSE userSeparator
        /\ categoryRules' = IF k = "categoryRules"
                            THEN c.newValue.categoryRules ELSE categoryRules
        /\ customPlaceholders' =
             IF k = "customPlaceholders"
             THEN (IF isDefinitionArray(c.newValue.customPlaceholders)
                   THEN c.newValue.customPlaceholders ELSE <<>>)
             ELSE customPlaceholders
        /\ changes' = IF c.keys = {k} THEN Tail(changes)
                      ELSE <<[c EXCEPT !.keys = @ \ {k}]>> \o Tail(changes)
    /\ UNCHANGED <<storage, worker, dlVars, fnVars, installer, uiVars>>

OnChanged ==
    /\ changes # <<>>
    /\ \E c \in {Head(changes)} :
        /\ isEnabled' = IF "enabled" \in c.keys THEN c.newValue.enabled ELSE isEnabled
        /\ userPattern' = IF "pattern" \in c.keys THEN c.newValue.pattern ELSE userPattern
        /\ userSeparator' = IF "separator" \in c.keys
                            THEN c.newValue.separator ELSE userSeparator
        /\ categoryRules' = IF "categoryRules" \in c.keys
                            THEN c.newValue.categoryRules ELSE categoryRules
        /\ customPlaceholders' =
             IF /\ "customPlaceholders" \in c.keys
                /\ "categoryRules" \in c.keys => isArray(c.newValue.categoryRules)
             THEN (IF isDefinitionArray(c.newValue.customPlaceholders)
                   THEN c.newValue.customPlaceholders ELSE <<>>)
             ELSE customPlaceholders
    /\ changes' = Tail(changes)
    /\ UNCHANGED <<storage, worker, dlVars, fnVars, installer, uiVars>>

\* Line 252: the browser asks for the filename of a new download.
OnDeterminingFilename ==
    /\ pc \in {"idle", "returned"}
    /\ downloadItem' \in WorkerDownloads
    /\ suggested' = <<>>
    /\ console' = <<>>
    /\ pc' = "dispatched"
    /\ UNCHANGED <<swVars, now, fnVars, envVars>>

\* options.js saveSettings: pattern and separator in one set call.
SaveSettings ==
    /\ Len(changes) < MaxPending
    /\ \E p \in SavedSettings :
        storageSet({"pattern", "separator"},
                   [emptyStorage EXCEPT !.pattern = p.pattern, !.separator = p.separator])
    /\ UNCHANGED <<swVars, dlVars, fnVars, worker, installer, uiVars>>

\* options.js saveCategoryRules
SaveCategoryRules ==
    /\ Len(changes) < MaxPending
    /\ \E rules \in SavedRuleLists :
        storageSet({"categoryRules"}, [emptyStorage EXCEPT !.categoryRules = rules])
    /\ UNCHANGED <<swVars, dlVars, fnVars, worker, installer, uiVars>>

\* options.js resetToDefaultCategories
ResetToDefaultCategories ==
    /\ Len(changes) < MaxPending
    /\ storageSet({"categoryRules"}, [emptyStorage EXCEPT !.categoryRules = defaultRules])
    /\ UNCHANGED <<swVars, dlVars, fnVars, worker, installer, uiVars>>

\* options.js saveCustomPlaceholders
SaveCustomPlaceholders ==
    /\ Len(changes) < MaxPending
    /\ \E rules \in SavedDefinitionLists :
        storageSet({"customPlaceholders"},
                   [emptyStorage EXCEPT !.customPlaceholders = rules])
    /\ UNCHANGED <<swVars, dlVars, fnVars, worker, installer, uiVars>>

\* The in-page popup's handleToggleChange.
HandleToggleChange ==
    /\ Len(changes) < MaxPending
    /\ \E checked \in {true, false} :
        storageSet({"enabled"}, [emptyStorage EXCEPT !.enabled = checked])
    /\ UNCHANGED <<swVars, dlVars, fnVars, worker, installer, uiVars>>

\* Lines 217-231: the settings object the callback builds from the result of
\* its get.
missingSettings(result) ==
    (IF result.enabled = undefined THEN {"enabled"} ELSE {})
    \cup (IF ~Truthy(result.pattern) THEN {"pattern"} ELSE {})
    \cup (IF result.separator = undefined THEN {"separator"} ELSE {})

\* Lines 212-216: the install or update event, raised when the installed or
\* updated worker starts; the handler asks the storage for three keys and
\* returns.  The result is what the storage holds now.
OnInstalled ==
    /\ installer.state = "idle"
    /\ worker = "starting"
    /\ installer' = [state |-> "reading",
                     result |-> [k \in {"enabled", "pattern", "separator"} |-> storage[k]]]
    /\ UNCHANGED <<swVars, dlVars, fnVars, storage, changes, worker, uiVars>>

\* Lines 216-236: the callback of that get; it writes a default for every
\* key its result lacks (a set of no keys is not made: line 231).
OnInstalledCallback ==
    /\ installer.state = "reading"
    /\ Len(changes) < MaxPending
    /\ installer' = [installer EXCEPT !.state = "done"]
    /\ storageSet(missingSettings(installer.result),
                  [emptyStorage EXCEPT !.enabled = true, !.pattern = DEFAULT_PATTERN,
                                       !.separator = DEFAULT_SEPARATOR])
    /\ UNCHANGED <<swVars, dlVars, fnVars, worker, uiVars>>

NextWorker ==
    \/ StorageInit
    \/ OnChanged
    \/ OnDeterminingFilename
    \/ ProcessDownload
    \/ SaveSettings
    \/ SaveCategoryRules
    \/ ResetToDefaultCategories
    \/ SaveCustomPlaceholders
    \/ HandleToggleChange
    \/ OnInstalled
    \/ OnInstalledCallback

SpecWorker == InitWorker /\ [][NextWorker]_vars

(***************************************************************************)
(* The worker's cache under sets and removals of storage keys.  No code of *)
(* the extension removes a key; chrome.storage.local.remove and clear are  *)
(* open to every page of the extension and to its developer tools, and the *)
(* onChanged listener receives the removal as a change with no newValue.   *)
(***************************************************************************)
\* chrome.storage.local.remove(k) on a key that is stored.
StorageRemove ==
    /\ Len(changes) < MaxPending
    /\ \E k \in StorageKeys :
        /\ storage[k] # emptyStorage[k]
        /\ storage' = [storage EXCEPT ![k] = emptyStorage[k]]
        /\ changes' = Append(changes, [keys |-> {k}, newValue |-> emptyStorage])
    /\ UNCHANGED <<swVars, dlVars, fnVars, worker, installer, uiVars>>

NextStorage ==
    \/ StorageInit
    \/ OnChanged
    \/ SaveSettings
    \/ SaveCategoryRules
    \/ ResetToDefaultCategories
    \/ SaveCustomPlaceholders
    \/ HandleToggleChange
    \/ StorageRemove

SpecStorage == InitWorker /\ [][NextStorage]_vars

(***************************************************************************)
(* Properties of processDownload (Spec).                                   *)
(***************************************************************************)
Logged(entry) == \E i \in 1..Len(console) : console[i] = entry

HasNoneOf(s, chars) == \A i \in 1..Len(s) : CharAt(s, i) \notin chars

\* C1: while the cached enabled flag is false, processDownload suggests
\* exactly downloadItem.filename and runs no renaming step (nothing is
\* logged), whatever the pattern, separator, rules and definitions are.
C1_DisabledKeepsFilename ==
    (pc # "dispatched" /\ isEnabled = false) =>
        /\ suggested = <<downloadItem.filename>>
        /\ console = <<>>

C1_Witness ==
    /\ pc = "returned"
    /\ isEnabled = false
    /\ userPattern = "{category}_{date}_{originalFilename}{ext}"
    /\ categoryRules = DEFAULT_CATEGORY_RULES
    /\ customPlaceholders = <<jiraDef, numDef>>
    /\ suggested = <<"quarterly-report.pdf">>

\* C2: every invocation returns without throwing and has called suggest
\* exactly once; when the pipeline failed (the catch block logged), and in
\* every configuration that makes a step throw, the suggested filename is
\* the original one.
C2_SuggestsOnceNeverThrows ==
    pc # "dispatched" =>
        /\ pc = "returned"
        /\ Len(suggested) = 1
        /\ Logged("Error processing download:") => suggested[1] = downloadItem.filename
        /\ (Truthy(isEnabled) /\ (userPattern = undefined \/ categoryRules = undefinedArray))
             => /\ Logged("Error processing download:")
                /\ suggested[1] = downloadItem.filename

\* A missing pattern together with a malformed regex and no url or referrer.
C2_Witness ==
    /\ pc = "returned"
    /\ isEnabled = true
    /\ userPattern = undefined
    /\ customPlaceholders = <<malformedDef, numDef>>
    /\ downloadItem = [filename |-> "report.PDF", url |-> undefined, referrer |-> undefined]
    /\ Logged("Error processing download:")
    /\ suggested = <<"report.PDF">>

SanitizeAlphabet == InvalidChars \cup {"a", "_", ".", " "}

InitSanitize ==
    /\ swInitial /\ dlInitial /\ envInitial
    /\ input \in {[filename |-> s] : s \in StringsUpTo(SanitizeAlphabet, MaxLen)}
    /\ output = <<>>

CallSanitize ==
    /\ output = <<>>
    /\ output' = <<sanitizeFilename(input.filename)>>
    /\ UNCHANGED <<swVars, dlVars, envVars, input>>

CallSanitizeAgain ==
    /\ Len(output) = 1
    /\ output' = Append(output, sanitizeFilename(output[1]))
    /\ UNCHANGED <<swVars, dlVars, envVars, input>>

NextSanitize == CallSanitize \/ CallSanitizeAgain

SpecSanitize == InitSanitize /\ [][NextSanitize]_vars

(***************************************************************************)
(* processPattern applied to patterns assembled from pieces: tokens, plain *)
(* text and stray braces.                                                  *)
(***************************************************************************)
PatternPieces == {
    [text |-> "{date}", name |-> "date"],
    [text |-> "{domain}", name |-> "domain"],
    [text |-> "{time}", name |-> "time"],
    [text |-> "{ext}", name |-> "ext"],
    [text |-> "_", name |-> ""],
    [text |-> "{", name |-> ""],
    [text |-> "}", name |-> ""] }

RECURSIVE concatTexts(_)
concatTexts(pieces) ==
    IF pieces = <<>> THEN "" ELSE Head(pieces).text \o concatTexts(Tail(pieces))

\* Value bags: 'time' is a missing key, 'date' may be null or empty.
PatternValueBags ==
    {[date |-> d, domain |-> m, ext |-> e] :
        d \in {null, "", "20240115"}, m \in {"", "x.io"}, e \in {undefined, "", ".pdf"}}

PatternSeparators == {"_", "", "--"}

InitPattern ==
    /\ swInitial /\ dlInitial /\ envInitial
    /\ input \in {[pieces |-> ps, pattern |-> concatTexts(ps), values |-> b, separator |-> sep] :
                    ps \in SeqsUpTo(PatternPieces, MaxPieces),
                    b \in PatternValueBags, sep \in PatternSeparators}
    /\ output = <<>>

CallProcessPattern ==
    /\ output = <<>>
    /\ output' = <<[placeholdersInPattern |-> placeholdersInPattern(input.pattern),
                    result |-> processPattern(input.pattern, input.values, input.separator)]>>
    /\ UNCHANGED <<swVars, dlVars, envVars, input>>

NextPattern == CallProcessPattern

SpecPattern == InitPattern /\ [][NextPattern]_vars

(***************************************************************************)
(* getCategoryForFile applied to filenames and short rule lists.           *)
(***************************************************************************)
CategoryFilenames ==
    {"", "a", "pdf", "a.", ".pdf", "a.pdf", "a.PDF", "a.b.Txt", "a.Txt", "a.zip", "a.df"}

\* Stored rules have a non-empty name and extensions (saveCategoryRules).
CategoryRuleSet ==
    {[name |-> n, extensions |-> e] :
        n \in {"Docs", "Text"}, e \in {"pdf", "pdf, TXT", "txt,pdf", " Txt ", "zip"}}

InitCategory ==
    /\ swInitial /\ dlInitial /\ envInitial
    /\ input \in {[filename |-> f, customRules |-> rs] :
                    f \in CategoryFilenames,
                    rs \in SeqsUpTo(CategoryRuleSet, MaxRules)
                             \cup {DEFAULT_CATEGORY_RULES, undefinedArray}}
    /\ output = <<>>

CallGetCategoryForFile ==
    /\ output = <<>>
    /\ output' = <<getCategoryForFile(input.filename, input.customRules)>>
    /\ UNCHANGED <<swVars, dlVars, envVars, input>>

NextCategory == CallGetCategoryForFile

SpecCategory == InitCategory /\ [][NextCategory]_vars

(***************************************************************************)
(* The loop over customPlaceholders (lines 146-187) applied to a bag of    *)
(* built-in values and a list of stored definitions.                       *)
(***************************************************************************)
CustomBaseValues == {"", "https://jira.io/browse/ABC-123", "x.io/JIRA/77"}

CustomBags ==
    {[tabUrl |-> t, domain |-> "jira.io", ext |-> ".pdf"] : t \in CustomBaseValues}

\* Stored definitions have a name, a base and a regex (saveCustomPlaceholders);
\* keywords may be missing.
CustomDefs ==
    {[name |-> n, base |-> b, regex |-> r, keywords |-> k] :
        n \in {"jira_id", "num"},
        b \in {"tabUrl", "jira_id", "num"},
        r \in {"([A-Z]+-\\d+)", "(\\d+)", "\\d+", "()", "("},
        k \in {undefined, "", " , ", "browse, jira", "nomatch", "JIRA,x"}}

ChainDefs ==
    {jiraDef, gatedDef, malformedDef, numDef,
     [name |-> "jira_id", base |-> "num", regex |-> "(\\d+)", keywords |-> ""],
     tabNumDef}

InitCustom ==
    /\ swInitial /\ dlInitial /\ envInitial
    /\ input \in {[placeholders |-> b, defs |-> ds] :
                    b \in CustomBags,
                    ds \in {<<d>> : d \in CustomDefs} \cup SeqsUpTo(ChainDefs, MaxDefs)}
    /\ output = <<>>

CallApplyDefinitions ==
    /\ output = <<>>
    /\ output' = <<applyDefinitions([placeholders |-> input.placeholders,
                                     console |-> <<>>], input.defs)>>
    /\ UNCHANGED <<swVars, dlVars, envVars, input>>

NextCustom == CallApplyDefinitions

SpecCustom == InitCustom /\ [][NextCustom]_vars

(***************************************************************************)
(* The floating panel's preview (content script, showPopup) next to the    *)
(* download-time loop, on the same definitions and base values.            *)
(***************************************************************************)
\* Content script lines 101-114: one call of the forEach callback on the
\* values resolved so far.  It returns without assigning when the gate is
\* closed, and assigns only a non-empty first group.
previewDefinition(resolvedValues, def) ==
    LET name == IF Truthy(def.name) THEN def.name ELSE ""
        from == IF Truthy(def.base) THEN def.base ELSE ""
        regexStr == IF Truthy(def.regex) THEN def.regex ELSE ""
        keywordsRaw == IF def.keywords # undefined THEN def.keywords ELSE ""
        sourceValue == Or(Get(resolvedValues, from), "")
        m == regExpMatch(regexStr, sourceValue)
    IN  IF name = "" \/ from = "" \/ regexStr = "" THEN resolvedValues
        ELSE IF ~gatePass(keywordList(keywordsRaw), sourceValue) THEN resolvedValues
        ELSE IF m.error THEN resolvedValues
        ELSE IF m.matched /\ Truthy(m.group1) THEN Put(resolvedValues, name, m.group1)
        ELSE resolvedValues

\* Lines 99-115: customDefs.forEach over { ...baseValues }.
RECURSIVE previewDefinitions(_, _)
previewDefinitions(resolvedValues, defs) ==
    IF defs = <<>> THEN resolvedValues
    ELSE previewDefinitions(previewDefinition(resolvedValues, Head(defs)), Tail(defs))

\* Lines 117-120: what the preview shows for the placeholder p.
previewShown(resolvedValues, p) ==
    IF p \in DOMAIN resolvedValues /\ resolvedValues[p] \notin {undefined, null}
       /\ Len(resolvedValues[p]) > 0
    THEN resolvedValues[p]
    ELSE "{" \o p \o "}"

\* Lines 92-97: baseValues = { domain, date, time, timestamp, tabUrl }.
PreviewBaseValues ==
    {[domain |-> "jira.io", date |-> "20240115", time |-> "090500",
      timestamp |-> "20240115-090500", tabUrl |-> t] : t \in CustomBaseValues}

InitPreview ==
    /\ swInitial /\ dlInitial /\ envInitial
    /\ input \in {[placeholders |-> b, defs |-> ds] :
                    b \in PreviewBaseValues, ds \in SeqsUpTo(ChainDefs, MaxDefs)}
    /\ output = <<>>

\* showPopup's storage callback builds the preview in the page.
ShowPopup ==
    /\ tab = pageClosed
    /\ tab' = [open |-> TRUE,
               resolvedValues |-> previewDefinitions(input.placeholders, input.defs)]
    /\ UNCHANGED <<swVars, dlVars, fnVars, storage, changes, worker, installer, editor>>

NextPreview == ShowPopup \/ CallApplyDefinitions

SpecPreview == InitPreview /\ [][NextPreview]_vars

(***************************************************************************)
(* The floating icon in the open tabs (content script).  Here the storage  *)
(* holds the key showFloatingIcon, tab[i] is the content script of tab i   *)
(* and changes[i] are the onChanged events on their way to it.             *)
(* floatingIcon tells whether the icon element exists (the variable        *)
(* floatingIcon is non-null and the element is in the page); timers counts *)
(* the 200 ms removal timers that have not fired yet.                      *)
(***************************************************************************)
\* chrome.storage.local.set({ showFloatingIcon: v }): onChanged is raised
\* when the value differs from the stored one, and reaches every tab whose
\* initialize has registered its listener (line 499).
setShowFloatingIcon(v) ==
    /\ storage' = [showFloatingIcon |-> v]
    /\ changes' = [i \in 1..NumTabs |->
                     IF storage.showFloatingIcon = v \/ tab[i].phase = "loaded"
                     THEN changes[i]
                     ELSE Append(changes[i], [showFloatingIcon |-> [newValue |-> v]])]

\* Every tab can take one more change event.
tabsCanReceive == \A i \in 1..NumTabs : Len(changes[i]) < MaxPending

InitIcon ==
    /\ swInitial /\ dlInitial
    /\ storage \in {[showFloatingIcon |-> v] : v \in {undefined, true, false}}
    /\ changes = [i \in 1..NumTabs |-> <<>>]
    /\ worker = "starting"
    /\ installer = installerIdle
    /\ editor = pageClosed
    /\ tab = [i \in 1..NumTabs |->
                [open |-> TRUE, phase |-> "loaded", result |-> undefined,
                 floatingIcon |-> FALSE, timers |-> 0]]
    /\ input = [fn |-> "none"]
    /\ output = <<>>

\* Lines 479-497: initialize asks the storage for showFloatingIcon and
\* registers handleStorageChange.
Initialize ==
    /\ \E i \in 1..NumTabs :
        /\ tab[i].phase = "loaded"
        /\ tab' = [tab EXCEPT ![i].phase = "reading",
                              ![i].result = storage.showFloatingIcon]
    /\ UNCHANGED <<swVars, dlVars, fnVars, storage, changes, worker, installer, editor>>

\* Lines 488-496: the callback of that get; createIcon (lines 21-52).  It is
\* delivered before the change events raised after the get.
InitializeCallback ==
    /\ \E i \in 1..NumTabs :
        /\ tab[i].phase = "reading"
        /\ tab' = [tab EXCEPT ![i].phase = "ready",
                              ![i].floatingIcon =
                                  IF tab[i].result = undefined \/ Truthy(tab[i].result)
                                  THEN TRUE ELSE @]
    /\ UNCHANGED <<swVars, dlVars, fnVars, storage, changes, worker, installer, editor>>

\* Lines 309-332: the hide button of a tab's icon.
HideFloatingIcon ==
    /\ tabsCanReceive
    /\ \E i \in 1..NumTabs :
        /\ tab[i].phase = "ready"
        /\ tab[i].floatingIcon
        /\ tab[i].timers < MaxTimers
        /\ tab' = [tab EXCEPT ![i].timers = @ + 1]
    /\ setShowFloatingIcon(false)
    /\ UNCHANGED <<swVars, dlVars, fnVars, worker, installer, editor>>

\* options.js lines 657-662: the toggle of the options page.
HandleFloatingIconToggle ==
    /\ tabsCanReceive
    /\ \E checked \in {true, false} : setShowFloatingIcon(checked)
    /\ UNCHANGED <<swVars, dlVars, fnVars, worker, installer, uiVars>>

\* Lines 400-432: handleStorageChange of a tab on a change of
\* showFloatingIcon.
handleStorageChange ==
    /\ \E i \in 1..NumTabs :
        /\ tab[i].phase = "ready"
        /\ changes[i] # <<>>
        /\ \E shouldShow \in {Head(changes[i]).showFloatingIcon.newValue} :
              tab' = IF Truthy(shouldShow) /\ ~tab[i].floatingIcon
                     THEN [tab EXCEPT ![i].floatingIcon = TRUE]
                     ELSE IF ~Truthy(shouldShow) /\ tab[i].floatingIcon
                     THEN [tab EXCEPT ![i].timers = IF @ < MaxTimers THEN @ + 1 ELSE @]
                     ELSE tab
        /\ changes' = [changes EXCEPT ![i] = Tail(@)]
    /\ UNCHANGED <<swVars, dlVars, fnVars, storage, worker, installer, editor>>

\* Lines 320-325 and 419-424: a removal timer of a tab fires.
RemovalTimer ==
    /\ \E i \in 1..NumTabs :
        /\ tab[i].timers > 0
        /\ tab' = [tab EXCEPT ![i].timers = @ - 1, ![i].floatingIcon = FALSE]
    /\ UNCHANGED <<swVars, dlVars, fnVars, storage, changes, worker, installer, editor>>

NextIcon ==
    \/ Initialize
    \/ InitializeCallback
    \/ HideFloatingIcon
    \/ HandleFloatingIconToggle
    \/ handleStorageChange
    \/ RemovalTimer

SpecIcon == InitIcon /\ [][NextIcon]_vars

(***************************************************************************)
(* The category editor of the options page.  editor.rows are the rows of   *)
(* the editor with the text of their two inputs as typed; the service      *)
(* worker's listener is no part of this specification.                     *)
(***************************************************************************)
\* /^[a-zA-Z0-9]+(,[a-zA-Z0-9]+)*$/.test(value)
extensionsRegexTest(value) ==
    LET parts == split(value, ",")
    IN  \A i \in 1..Len(parts) :
            /\ Len(parts[i]) > 0
            /\ \A j \in 1..Len(parts[i]) :
                   CharAt(parts[i], j) \in UpperSet \cup LowerSet \cup Digits

\* Lines 545-571: validateCategoryInput on the name input of row i.
validateCategoryName(rows, i) ==
    LET value == trim(rows[i].name)
    IN  IF Len(value) = 0 THEN TRUE
        ELSE IF Len(value) < 2 THEN FALSE
        ELSE IF Len(value) > 50 THEN FALSE
        ELSE {j \in 1..Len(rows) :
                 j # i /\ toLowerCase(trim(rows[j].name)) = toLowerCase(value)} = {}

\* Lines 561-568: validateCategoryInput on the extensions input of row i.
validateCategoryExtensions(rows, i) ==
    LET value == trim(rows[i].extensions)
    IN  IF Len(value) = 0 THEN TRUE ELSE extensionsRegexTest(value)

\* Lines 577-591: the rules saveCategoryRules collects from the rows.
RECURSIVE collectedRules(_)
collectedRules(rows) ==
    IF rows = <<>> THEN <<>>
    ELSE LET name == trim(Head(rows).name)
             extensions == trim(Head(rows).extensions)
         IN  (IF Truthy(name) /\ Truthy(extensions)
              THEN <<[name |-> name, extensions |-> extensions]>> ELSE <<>>)
             \o collectedRules(Tail(rows))

\* Lines 576-596: saveCategoryRules for the rows as they will be.
saveCategoryRulesOf(rows) ==
    storage' = [storage EXCEPT !.categoryRules = collectedRules(rows)]

TypedNames == {"", "a", "Docs", "docs ", "Text"}
TypedExtensions == {"", "pdf", "pdf,doc", "pdf, doc", ".txt"}

\* loadCategoryRules (lines 506-517) has shown the stored rules.
InitEditor ==
    /\ swInitial /\ dlInitial
    /\ \E rules \in {<<>>, <<[name |-> "Reports", extensions |-> "pdf"]>>} :
          /\ storage = [emptyStorage EXCEPT !.categoryRules = rules]
          /\ editor = [open |-> TRUE, rows |-> rules]
    /\ changes = <<>>
    /\ worker = "starting"
    /\ installer = installerIdle
    /\ tab = pageClosed
    /\ input = [fn |-> "none"]
    /\ output = <<>>

\* Lines 601-611: addNewCategory appends an empty row and saves nothing.
AddNewCategory ==
    /\ Len(editor.rows) < MaxRules
    /\ editor' = [editor EXCEPT !.rows = Append(@, [name |-> "", extensions |-> ""])]
    /\ UNCHANGED <<swVars, dlVars, fnVars, storage, changes, worker, installer, tab>>

\* Lines 472-474 and 524-538: an input event on the name of a row; the
\* rows are saved when this input is valid.
InputCategoryName ==
    /\ \E i \in 1..Len(editor.rows) : \E text \in TypedNames :
        \E rows \in {[editor.rows EXCEPT ![i].name = text]} :
            /\ editor' = [editor EXCEPT !.rows = rows]
            /\ IF validateCategoryName(rows, i)
               THEN saveCategoryRulesOf(rows) ELSE UNCHANGED storage
    /\ UNCHANGED <<swVars, dlVars, fnVars, changes, worker, installer, tab>>

\* Lines 482-484 and 524-538: an input event on the extensions of a row.
InputCategoryExtensions ==
    /\ \E i \in 1..Len(editor.rows) : \E text \in TypedExtensions :
        \E rows \in {[editor.rows EXCEPT ![i].extensions = text]} :
            /\ editor' = [editor EXCEPT !.rows = rows]
            /\ IF validateCategoryExtensions(rows, i)
               THEN saveCategoryRulesOf(rows) ELSE UNCHANGED storage
    /\ UNCHANGED <<swVars, dlVars, fnVars, changes, worker, installer, tab>>

\* Lines 491-496: the delete button of a row, confirmed.
DeleteCategory ==
    /\ \E i \in 1..Len(editor.rows) :
        \E rows \in {SubSeq(editor.rows, 1, i - 1)
                      \o SubSeq(editor.rows, i + 1, Len(editor.rows))} :
            /\ editor' = [editor EXCEPT !.rows = rows]
            /\ saveCategoryRulesOf(rows)
    /\ UNCHANGED <<swVars, dlVars, fnVars, changes, worker, installer, tab>>

NextEditor ==
    \/ AddNewCategory
    \/ InputCategoryName
    \/ InputCategoryExtensions
    \/ DeleteCategory

SpecEditor == InitEditor /\ [][NextEditor]_vars

(***************************************************************************)
(* The pattern builder of the options page with its custom placeholder     *)
(* section.  editor.PLACEHOLDERS is the list of known placeholders,        *)
(* editor.availableBlocksList and editor.patternSequence are the           *)
(* placeholders of the blocks of the two lists, in order, and              *)
(* editor.customRows are the rows of the custom placeholder section.  The  *)
(* storage callbacks of a handler run before the next event of the user.   *)
(***************************************************************************)
\* options.js lines 26-36
BUILTIN_PLACEHOLDERS ==
    <<"domain", "timestamp", "date", "time", "originalFilename", "category",
      "sourceUrl", "tabUrl">>

\* The elements of a list.
Elements(list) == {list[i] : i \in 1..Len(list)}

\* The list without the elements in S, in its order.
RECURSIVE Without(_, _)
Without(list, S) ==
    IF list = <<>> THEN <<>>
    ELSE (IF Head(list) \in S THEN <<>> ELSE <<Head(list)>>) \o Without(Tail(list), S)

\* Lines 225-240: the definitions saveCustomPlaceholders collects.
RECURSIVE collectedDefinitions(_)
collectedDefinitions(rows) ==
    IF rows = <<>> THEN <<>>
    ELSE LET r == Head(rows)
         IN  (IF Truthy(trim(r.name)) /\ Truthy(r.base) /\ Truthy(trim(r.regex))
              THEN <<[name |-> trim(r.name), base |-> r.base,
                      regex |-> trim(r.regex), keywords |-> trim(r.keywords)]>>
              ELSE <<>>)
             \o collectedDefinitions(Tail(rows))

\* Lines 129-137: Object.keys of the built-in names followed by the names of
\* the stored definitions that are not among the names before them.
RECURSIVE knownPlaceholders(_, _)
knownPlaceholders(names, defs) ==
    IF defs = <<>> THEN names
    ELSE knownPlaceholders(
             IF Truthy(Head(defs).name) /\ Head(defs).name \notin Elements(names)
             THEN Append(names, Head(defs).name) ELSE names,
             Tail(defs))

\* Lines 97-109: populateAvailableBlocks.
populateAvailableBlocks(PLACEHOLDERS, patternSequence) ==
    Without(PLACEHOLDERS, Elements(patternSequence))

\* Lines 270-279: the blocks loadSettings builds from the stored pattern.
loadedSequence(PLACEHOLDERS, pattern) ==
    Without(placeholdersInPattern(Or(pattern, DEFAULT_PATTERN)),
            Elements(placeholdersInPattern(Or(pattern, DEFAULT_PATTERN)))
                \ Elements(PLACEHOLDERS))

BuilderStorages ==
    {emptyStorage,
     [emptyStorage EXCEPT !.pattern = "{jira_id}{date}{ext}",
                          !.separator = "-",
                          !.customPlaceholders = <<jiraDef>>]}

\* The page after its initialization (lines 678-682 and 707): the known
\* placeholders, the sequence of the stored pattern, the available blocks
\* and the rows of the stored definitions.
InitBuilder ==
    /\ swInitial /\ dlInitial
    /\ storage \in BuilderStorages
    /\ \E defs \in {IF isDefinitionArray(storage.customPlaceholders)
                     THEN storage.customPlaceholders ELSE <<>>} :
       \E known \in {knownPlaceholders(BUILTIN_PLACEHOLDERS, defs)} :
       \E sequence \in {loadedSequence(known, storage.pattern)} :
          editor = [open |-> TRUE,
                    PLACEHOLDERS |-> known,
                    patternSequence |-> sequence,
                    availableBlocksList |-> populateAvailableBlocks(known, sequence),
                    customRows |-> defs]
    /\ changes = <<>>
    /\ worker = "starting"
    /\ installer = installerIdle
    /\ tab = pageClosed
    /\ input = [fn |-> "none"]
    /\ output = <<>>

\* Lines 397-430: a block is dropped on the sequence container.  A block of
\* the available list is replaced by a new block at the end of the
\* sequence; a block of the sequence moves to its end.
HandleDropOnSequence ==
    /\ \/ \E i \in 1..Len(editor.availableBlocksList) :
            /\ Len(editor.patternSequence) < MaxPieces
            /\ editor.availableBlocksList[i] \in Elements(editor.PLACEHOLDERS)
            /\ editor' = [editor EXCEPT
                  !.patternSequence = Append(@, editor.availableBlocksList[i]),
                  !.availableBlocksList = SubSeq(@, 1, i - 1) \o SubSeq(@, i + 1, Len(@))]
       \/ \E i \in 1..Len(editor.patternSequence) :
            /\ editor.patternSequence[i] \in Elements(editor.PLACEHOLDERS)
            /\ editor' = [editor EXCEPT
                  !.patternSequence =
                      Append(SubSeq(@, 1, i - 1) \o SubSeq(@, i + 1, Len(@)), @[i])]
    /\ UNCHANGED <<swVars, dlVars, fnVars, storage, changes, worker, installer, tab>>

\* list with x inserted before the element at position j.
InsertBefore(list, j, x) ==
    SubSeq(list, 1, j - 1) \o <<x>> \o SubSeq(list, j, Len(list))

\* list without the element at position i.
RemoveAt(list, i) == SubSeq(list, 1, i - 1) \o SubSeq(list, i + 1, Len(list))

\* Lines 438-452: a block is dropped on a block of the sequence and is
\* inserted before it, whichever list it was dragged from.
HandleDropOnBlock ==
    /\ \E j \in 1..Len(editor.patternSequence) :
        \/ \E i \in 1..Len(editor.availableBlocksList) :
            /\ Len(editor.patternSequence) < MaxPieces
            /\ editor' = [editor EXCEPT
                  !.patternSequence = InsertBefore(@, j, editor.availableBlocksList[i]),
                  !.availableBlocksList = RemoveAt(@, i)]
        \/ \E i \in 1..Len(editor.patternSequence) \ {j} :
            \E target \in {editor.patternSequence[j]} :
            \E rest \in {RemoveAt(editor.patternSequence, i)} :
            \E k \in {IF i < j THEN j - 1 ELSE j} :
            /\ rest[k] = target
            /\ editor' = [editor EXCEPT
                  !.patternSequence = InsertBefore(rest, k, editor.patternSequence[i])]
    /\ UNCHANGED <<swVars, dlVars, fnVars, storage, changes, worker, installer, tab>>

\* Lines 84-89: the remove button of a block of the sequence.
RemoveBlock ==
    /\ \E i \in 1..Len(editor.patternSequence) :
        \E sequence \in {SubSeq(editor.patternSequence, 1, i - 1)
                          \o SubSeq(editor.patternSequence, i + 1,
                                    Len(editor.patternSequence))} :
            editor' = [editor EXCEPT
                !.patternSequence = sequence,
                !.availableBlocksList = populateAvailableBlocks(editor.PLACEHOLDERS, sequence)]
    /\ UNCHANGED <<swVars, dlVars, fnVars, storage, changes, worker, installer, tab>>

\* Lines 178-185 (save) and 190-197 (delete): the rows are saved, the known
\* placeholders are read back from the storage and the available list is
\* populated again.
savedRows(rows) ==
    /\ storage' = [storage EXCEPT !.customPlaceholders = collectedDefinitions(rows)]
    /\ \E known \in {knownPlaceholders(BUILTIN_PLACEHOLDERS, collectedDefinitions(rows))} :
          editor' = [editor EXCEPT
              !.customRows = rows,
              !.PLACEHOLDERS = known,
              !.availableBlocksList = populateAvailableBlocks(known, editor.patternSequence)]

\* Lines 246-254: addNewCustomPlaceholder appends an empty row.
AddNewCustomPlaceholder ==
    /\ Len(editor.customRows) < MaxDefs
    /\ editor' = [editor EXCEPT !.customRows =
                     Append(@, [name |-> "", base |-> BUILTIN_PLACEHOLDERS[1],
                                regex |-> "", keywords |-> ""])]
    /\ UNCHANGED <<swVars, dlVars, fnVars, storage, changes, worker, installer, tab>>

\* Lines 187-189: an input event on the name or the regex of a row.
InputCustomPlaceholder ==
    /\ \E i \in 1..Len(editor.customRows) :
          \/ \E text \in {"", "jira_id"} :
                savedRows([editor.customRows EXCEPT ![i].name = text])
          \/ \E text \in {"", "(\\d+)"} :
                savedRows([editor.customRows EXCEPT ![i].regex = text])
    /\ UNCHANGED <<swVars, dlVars, fnVars, changes, worker, installer, tab>>

\* Lines 190-197: the delete button of a row.
DeleteCustomPlaceholder ==
    /\ \E i \in 1..Len(editor.customRows) :
          savedRows(SubSeq(editor.customRows, 1, i - 1)
                    \o SubSeq(editor.customRows, i + 1, Len(editor.customRows)))
    /\ UNCHANGED <<swVars, dlVars, fnVars, changes, worker, installer, tab>>

NextBuilder ==
    \/ HandleDropOnSequence
    \/ HandleDropOnBlock
    \/ RemoveBlock
    \/ AddNewCustomPlaceholder
    \/ InputCustomPlaceholder
    \/ DeleteCustomPlaceholder

SpecBuilder == InitBuilder /\ [][NextBuilder]_vars

(***************************************************************************)
(* Properties of sanitizeFilename (SpecSanitize).                          *)
(***************************************************************************)
\* The nine characters the specification lists: \ / : * ? " < > |
NineChars == {"\\", "/", ":", "*", "?", "\"", "<", ">", "|"}

\* C4: sanitizeFilename(s) is as long as s, has '_' wherever s has one of the
\* nine characters and the character of s everywhere else.
C4_SanitizePositionwise ==
    output # <<>> =>
        LET s == input.filename
            r == output[1]
        IN  /\ Len(r) = Len(s)
            /\ \A i \in 1..Len(s) :
                 IF CharAt(s, i) \in NineChars
                 THEN CharAt(r, i) = "_"
                 ELSE CharAt(r, i) = CharAt(s, i)

C4_Witness == input.filename = "a|:" /\ output = <<"a__">>

\* C5: sanitizing an already sanitized string changes nothing.
C5_SanitizeIdempotent == Len(output) = 2 => output[2] = output[1]

C5_Witness ==
    /\ Len(output) = 2
    /\ input.filename = "?/"
    /\ output[1] = "__"

(***************************************************************************)
(* Properties of processPattern (SpecPattern).                             *)
(***************************************************************************)
\* The text a placeholder contributes: '' for a missing, null or empty value.
ResolvedValue(values, name) ==
    IF name \notin DOMAIN values THEN ""
    ELSE IF values[name] \in {undefined, null} THEN "" ELSE values[name]

\* The non-empty values of names, in order, with s between neighbours.
RECURSIVE JoinNonEmpty(_, _, _)
JoinNonEmpty(names, values, s) ==
    IF names = <<>> THEN ""
    ELSE LET v == ResolvedValue(values, Head(names))
             rest == JoinNonEmpty(Tail(names), values, s)
         IN  IF v = "" THEN rest
             ELSE IF rest = "" THEN v
             ELSE v \o s \o rest

\* All values of names, in order, with nothing between them.
RECURSIVE ConcatValues(_, _)
ConcatValues(names, values) ==
    IF names = <<>> THEN ""
    ELSE ResolvedValue(values, Head(names)) \o ConcatValues(Tail(names), values)

\* The extension the bag carries: '' when missing or empty.
BagExtension(values) == ResolvedValue(values, "ext")

\* The result without its trailing extension.
BeforeExtension(result, values) ==
    SubSeq(result, 1, Len(result) - Len(BagExtension(values)))

EndsWith(s, t) == Len(t) <= Len(s) /\ SubSeq(s, Len(s) - Len(t) + 1, Len(s)) = t

\* C6: with a non-empty separator s the part of the result before the
\* extension is the non-empty resolved values, in pattern order, joined by
\* s; it neither starts nor ends with s and never holds s twice in a row
\* (no value drawn here contains a separator).
C6_EmptyValuesAddNoSeparator ==
    (output # <<>> /\ input.separator # "") =>
        LET s == input.separator
            r == output[1].result
            body == BeforeExtension(r, input.values)
        IN  /\ EndsWith(r, BagExtension(input.values))
            /\ body = JoinNonEmpty(output[1].placeholdersInPattern, input.values, s)
            /\ ~StartsWithAt(body, s, 1)
            /\ ~EndsWith(body, s)
            /\ ~includes(body, s \o s)

\* Two tokens with a value around one whose value is empty.
C6_Witness ==
    /\ output # <<>>
    /\ input.pattern = "{domain}{date}{domain}"
    /\ input.values.date = ""
    /\ input.values.domain = "x.io"
    /\ input.separator = "--"
    /\ input.values.ext = ".pdf"
    /\ output[1].result = "x.io--x.io.pdf"

\* The pieces are tokens and plain text only.
WellFormedPieces(pieces) ==
    \A i \in 1..Len(pieces) : pieces[i].text \notin {"{", "}"}

IsJoinedName(piece) == piece.name \notin {"", "ext"}

\* The names of the token pieces other than {ext}, in order.
JoinedNames(pieces) ==
    LET kept == SelectSeq(pieces, IsJoinedName)
    IN  [i \in 1..Len(kept) |-> kept[i].name]

\* C7: the result is the joined values of the tokens other than {ext},
\* immediately followed by values.ext (nothing when it is missing or
\* empty), wherever {ext} stands in the pattern and whether it is there.
C7_ExtensionAppended ==
    (output # <<>> /\ WellFormedPieces(input.pieces)) =>
        LET names == JoinedNames(input.pieces)
            joined == IF input.separator = ""
                      THEN ConcatValues(names, input.values)
                      ELSE JoinNonEmpty(names, input.values, input.separator)
        IN  output[1].result = joined \o BagExtension(input.values)

\* {ext} stands first in the pattern and still ends the result.
C7_Witness ==
    /\ output # <<>>
    /\ input.pattern = "{ext}{date}{domain}"
    /\ input.values.date = "20240115"
    /\ input.values.domain = "x.io"
    /\ input.values.ext = ".pdf"
    /\ input.separator = "_"
    /\ output[1].result = "20240115_x.io.pdf"

\* C8: the extracted list holds the names of all tokens left to right, with
\* duplicates, without 'ext'; no token, no entry.  For a pattern with stray
\* braces the list still never holds 'ext'.
C8_PlaceholdersInOrder ==
    output # <<>> =>
        /\ \A i \in 1..Len(output[1].placeholdersInPattern) :
             output[1].placeholdersInPattern[i] # "ext"
        /\ WellFormedPieces(input.pieces) =>
             output[1].placeholdersInPattern = JoinedNames(input.pieces)

\* A duplicate name, with {ext} between its two occurrences.
C8_Witness ==
    /\ output # <<>>
    /\ input.pattern = "{date}{ext}{date}"
    /\ output[1].placeholdersInPattern = <<"date", "date">>

(***************************************************************************)
(* Properties of getCategoryForFile (SpecCategory).                        *)
(***************************************************************************)
\* a and b are equal up to letter case.
EqualIgnoringCase(a, b) ==
    /\ Len(a) = Len(b)
    /\ \A i \in 1..Len(a) : LowerChar(CharAt(a, i)) = LowerChar(CharAt(b, i))

\* The extension as written in the filename, without its dot.
WrittenExtension(filename) ==
    LET ext == splitFilename(filename).ext
    IN  IF ext = "" THEN "" ELSE SubSeq(ext, 2, Len(ext))

HasExtension(filename) == WrittenExtension(filename) # ""

\* Some comma-separated token of rule.extensions, trimmed, is the file's
\* extension up to letter case.
ListsExtension(rule, filename) ==
    LET tokens == split(rule.extensions, ",")
    IN  \E k \in 1..Len(tokens) :
            EqualIgnoringCase(trim(tokens[k]), WrittenExtension(filename))

MatchingRules(rules, filename) ==
    {i \in 1..Len(rules) : ListsExtension(rules[i], filename)}

\* C9: the category is the name of the first rule, in list order, whose
\* extension list contains the file's extension.
C9_FirstMatchWins ==
    (/\ output # <<>>
     /\ HasExtension(input.filename)
     /\ MatchingRules(input.customRules, input.filename) # {}) =>
        output[1] = input.customRules[Least(MatchingRules(input.customRules, input.filename))].name

\* Both rules list the extension; the first one names the category.
C9_Witness ==
    /\ output = <<"Text">>
    /\ input.filename = "a.pdf"
    /\ input.customRules = <<[name |-> "Text", extensions |-> "txt,pdf"],
                             [name |-> "Docs", extensions |-> "pdf"]>>

\* C10: a rule matches iff the file's extension equals one of its tokens
\* after trimming the token and ignoring letter case on both sides: with
\* one rule the category is that rule's name exactly then, and with any
\* rules it is 'unknown' exactly when no rule matches.
C10_MatchIgnoresCaseAndSpace ==
    (/\ output # <<>>
     /\ HasExtension(input.filename)
     /\ isArray(input.customRules)
     /\ input.customRules # <<>>) =>
        /\ (output[1] = "unknown") <=> (MatchingRules(input.customRules, input.filename) = {})
        /\ Len(input.customRules) = 1 =>
             ((output[1] = input.customRules[1].name)
                <=> ListsExtension(input.customRules[1], input.filename))

\* A mixed-case file extension against an upper-case token after a space.
C10_Witness ==
    /\ output = <<"Docs">>
    /\ input.filename = "a.Txt"
    /\ input.customRules = <<[name |-> "Docs", extensions |-> "pdf, TXT"]>>

\* C11: a filename without an extension (the empty filename, or one with
\* no '.' in it) is 'unknown' under every rule list.
NoDot(filename) == \A i \in 1..Len(filename) : CharAt(filename, i) # "."

C11_NoExtensionIsUnknown ==
    (output # <<>> /\ NoDot(input.filename)) => output = <<"unknown">>

\* The whole name is an extension the rule lists, yet it is no extension.
C11_Witness ==
    /\ output = <<"unknown">>
    /\ input.filename = "pdf"
    /\ input.customRules = <<[name |-> "Docs", extensions |-> "pdf"]>>

\* C12 as stated: 'unknown' whenever no rule of the supplied list matches,
\* and whenever the supplied list is empty or not an array.
C12_UnknownWhenNoMatchOrNoRules ==
    (/\ output # <<>>
     /\ \/ MatchingRules(input.customRules, input.filename) = {}
        \/ input.customRules = <<>>
        \/ ~isArray(input.customRules)) =>
        output = <<"unknown">>

\* The rules the classification runs over: the supplied list when it is a
\* non-empty array, the built-in defaults otherwise.
RulesUsed(customRules) ==
    IF isArray(customRules) /\ customRules # <<>>
    THEN customRules ELSE DEFAULT_CATEGORY_RULES

\* C12 amended: 'unknown' whenever no rule of the list in use matches the
\* file's extension, the list in use being the built-in defaults when the
\* supplied list is empty or not an array.
C12_UnknownWhenNoRuleInUseMatches ==
    (/\ output # <<>>
     /\ MatchingRules(RulesUsed(input.customRules), input.filename) = {}) =>
        output = <<"unknown">>

\* An empty list and an extension the defaults do not list.
C12_Witness ==
    /\ output = <<"unknown">>
    /\ input.filename = "a.df"
    /\ input.customRules = <<>>

(***************************************************************************)
(* Properties of the custom placeholder loop (SpecCustom).                 *)
(***************************************************************************)
\* The keywords of a definition: its comma-separated tokens, trimmed, the
\* empty ones dropped.
Keywords(def) ==
    IF def.keywords = undefined THEN {}
    ELSE LET tokens == split(def.keywords, ",")
         IN  {trim(tokens[i]) : i \in 1..Len(tokens)} \ {""}

\* k occurs in s somewhere, letter case ignored.
CaseInsensitiveSubstring(k, s) ==
    \E i \in 1..(Len(s) - Len(k) + 1) :
        EqualIgnoringCase(SubSeq(s, i, i + Len(k) - 1), k)

GateOpen(def, sourceValue) ==
    \/ Keywords(def) = {}
    \/ \E k \in Keywords(def) : CaseInsensitiveSubstring(k, sourceValue)

\* What trying the regex on sourceValue leaves as the value: capture group
\* 1 of the first match, '' when there is none or the regex is malformed.
RegexValue(def, sourceValue) ==
    LET m == regExpMatch(def.regex, sourceValue)
    IN  IF ~m.error /\ m.matched /\ m.group1 \notin {undefined, ""}
        THEN m.group1 ELSE ""

BaseValue(bag, def) ==
    IF def.base \in DOMAIN bag /\ bag[def.base] # undefined THEN bag[def.base] ELSE ""

DerivedValue(bag, def) ==
    IF BaseValue(bag, def) = "" THEN ""
    ELSE IF ~GateOpen(def, BaseValue(bag, def)) THEN ""
    ELSE RegexValue(def, BaseValue(bag, def))

RegexErrorLogged(result) ==
    \E i \in 1..Len(result.console) :
        result.console[i] = "Invalid custom placeholder regex:"

\* C14: for a definition with a non-empty base value the regex is tried
\* (its capture becomes the value, a malformed regex is reported) exactly
\* when the keyword list is empty or some keyword is a case-insensitive
\* substring of the base value; otherwise the name is set to ''.
C14_KeywordGate ==
    (/\ output # <<>>
     /\ Len(input.defs) = 1
     /\ BaseValue(input.placeholders, input.defs[1]) # "") =>
        LET def == input.defs[1]
            sourceValue == BaseValue(input.placeholders, def)
            value == output[1].placeholders[def.name]
        IN  /\ GateOpen(def, sourceValue) =>
                /\ value = RegexValue(def, sourceValue)
                /\ RegexErrorLogged(output[1]) <=> (def.regex = "(")
            /\ ~GateOpen(def, sourceValue) =>
                /\ value = ""
                /\ ~RegexErrorLogged(output[1])

\* The keyword 'jira' opens the gate on a base value that spells it JIRA.
C14_Witness ==
    /\ output # <<>>
    /\ input.placeholders.tabUrl = "x.io/JIRA/77"
    /\ input.defs = <<[name |-> "num", base |-> "tabUrl", regex |-> "(\\d+)",
                       keywords |-> "browse, jira"]>>
    /\ output[1].placeholders["num"] = "77"

\* The bag after the definitions have been derived one after the other,
\* each from the bag the ones before it left.
RECURSIVE DerivedInOrder(_, _)
DerivedInOrder(bag, defs) ==
    IF defs = <<>> THEN bag
    ELSE DerivedInOrder(Put(bag, Head(defs).name, DerivedValue(bag, Head(defs))),
                        Tail(defs))

\* C16: the definitions are processed in list order against one bag: a
\* definition based on an earlier definition's name reads that derived
\* value, one based on a later definition's name reads what the bag held
\* before ('' for a name that is not built in).
C16_ProcessedInListOrder ==
    output # <<>> =>
        LET bag == input.placeholders
            defs == input.defs
            out == output[1].placeholders
        IN  /\ out = DerivedInOrder(bag, defs)
            /\ (Len(defs) = 2 /\ defs[1].name # defs[2].name) =>
                  /\ defs[2].base = defs[1].name =>
                        out[defs[2].name] =
                            DerivedValue(Put(bag, defs[1].name, DerivedValue(bag, defs[1])),
                                         defs[2])
                  /\ (defs[1].base = defs[2].name /\ defs[2].name \notin DOMAIN bag) =>
                        out[defs[1].name] = ""

\* jira_id is derived from tabUrl, then num from jira_id.
C16_Witness ==
    /\ output # <<>>
    /\ input.placeholders.tabUrl = "https://jira.io/browse/ABC-123"
    /\ input.defs = <<jiraDef, numDef>>
    /\ output[1].placeholders["jira_id"] = "ABC-123"
    /\ output[1].placeholders["num"] = "123"

(***************************************************************************)
(* Properties of a whole resolution with custom placeholders (Spec).       *)
(***************************************************************************)
\* The invocation ran the pipeline to its end: enabled, and neither
\* categoryRules.length nor processPattern threw.
Renamed ==
    /\ pc = "returned"
    /\ Truthy(isEnabled)
    /\ Logged("Renaming:")

\* The value bag of the invocation: the built-in values, then the custom
\* definitions derived one after the other.
ExpectedBag ==
    DerivedInOrder(builtinPlaceholders(downloadItem, now), customPlaceholders)

HasMalformedRegex(defs) == \E i \in 1..Len(defs) : defs[i].regex = "("

\* C15: with a malformed regex in the list the definition's value is '',
\* the later definitions are still derived, the other placeholders keep
\* their values, and the download is renamed by the pattern: the catch
\* block of processDownload is not entered.
C15_MalformedRegexNeutralized ==
    (/\ pc = "returned"
     /\ Truthy(isEnabled)
     /\ HasMalformedRegex(customPlaceholders)
     /\ isArray(categoryRules)
     /\ userPattern # undefined) =>
        /\ Logged("Renaming:")
        /\ ~Logged("Error processing download:")
        /\ \A i \in 1..Len(customPlaceholders) :
             customPlaceholders[i].regex = "(" =>
                \/ ExpectedBag[customPlaceholders[i].name] = ""
                \/ \E j \in (i + 1)..Len(customPlaceholders) :
                      customPlaceholders[j].name = customPlaceholders[i].name
        /\ suggested =
             <<sanitizeFilename(processPattern(userPattern, ExpectedBag, userSeparator))>>

\* The regex of jira_id is malformed; num, defined after it, is derived.
C15_Witness ==
    /\ pc = "returned"
    /\ isEnabled = true
    /\ customPlaceholders = <<malformedDef, tabNumDef>>
    /\ userPattern = "{num}{jira_id}{originalFilename}{ext}"
    /\ userSeparator = "_"
    /\ downloadItem.filename = "quarterly-report.pdf"
    /\ downloadItem.referrer = "https://jira.io/browse/ABC-123"
    /\ Logged("Invalid custom placeholder regex:")
    /\ suggested = <<"123_quarterly-report.pdf">>

\* The pattern without the tokens {name}.
RECURSIVE RemoveToken(_, _)
RemoveToken(pattern, name) ==
    IF pattern = "" THEN ""
    ELSE IF StartsWithAt(pattern, "{" \o name \o "}", 1)
    THEN RemoveToken(SubSeq(pattern, Len(name) + 3, Len(pattern)), name)
    ELSE CharAt(pattern, 1) \o RemoveToken(Tail1(pattern), name)

CustomNames == {customPlaceholders[i].name : i \in 1..Len(customPlaceholders)}

\* C17: a custom placeholder whose derivation yields no value adds neither
\* text nor a separator: the suggestion is the one the pattern without
\* that placeholder's token gives.
C17_EmptyCustomValueContributesNothing ==
    Renamed =>
        \A name \in CustomNames :
            (ExpectedBag[name] = "" /\ includes(userPattern, "{" \o name \o "}")) =>
                suggested = <<sanitizeFilename(
                                processPattern(RemoveToken(userPattern, name),
                                               ExpectedBag, userSeparator))>>

\* The keyword gate of jira_id fails; the name starts without a separator.
C17_Witness ==
    /\ Renamed
    /\ customPlaceholders = <<gatedDef>>
    /\ userPattern = "{num}{jira_id}{originalFilename}{ext}"
    /\ userSeparator = "_"
    /\ downloadItem.filename = "quarterly-report.pdf"
    /\ downloadItem.referrer = "https://jira.io/browse/ABC-123"
    /\ suggested = <<"quarterly-report.pdf">>

Invocation == pc = "dispatched" /\ pc' # "dispatched"

\* The name of the first default rule that lists the file's extension.
DefaultCategory(filename) ==
    IF MatchingRules(DEFAULT_CATEGORY_RULES, filename) = {} THEN "unknown"
    ELSE DEFAULT_CATEGORY_RULES[Least(MatchingRules(DEFAULT_CATEGORY_RULES, filename))].name

\* C13: with no categoryRules key in storage the storage callback makes the
\* cached rule list the 11 default rules and writes the same list to
\* storage; and a download classified while the cached list is empty is
\* classified by the built-in default rules.
C13_DefaultRulesWhenNoneSaved ==
    [][/\ (worker = "starting" /\ worker' = "running" /\ ~isArray(storage.categoryRules)) =>
            /\ categoryRules' = DEFAULT_CATEGORY_RULES
            /\ Len(categoryRules') = 11
            /\ storage'.categoryRules = categoryRules'
       /\ (/\ Invocation
           /\ categoryRules = <<>>
           /\ Truthy(isEnabled)
           /\ userPattern = "{category}{originalFilename}{ext}"
           /\ userSeparator = "-") =>
            suggested' = <<DefaultCategory(downloadItem.filename) \o "-"
                           \o downloadItem.filename>>
      ]_vars

\* A download was classified with the empty cached list, then the storage
\* callback found no saved rules.
C13_Witness ==
    /\ worker = "running"
    /\ categoryRules = DEFAULT_CATEGORY_RULES_SW
    /\ storage.categoryRules = DEFAULT_CATEGORY_RULES_SW
    /\ changes # <<>>
    /\ "categoryRules" \in changes[Len(changes)].keys
    /\ pc = "returned"
    /\ suggested = <<"Documents-report.PDF">>

\* C19: an invocation of processDownload leaves the cached enabled flag,
\* pattern, separator, rule list and definition list, and the storage, as
\* they were (and so raises no change event).
C19_ConfigurationUntouched ==
    [][Invocation => UNCHANGED <<swVars, storage, changes>>]_vars

\* An enabled resolution with custom rules and a custom definition cached.
C19_Witness ==
    /\ pc = "returned"
    /\ Logged("Renaming:")
    /\ categoryRules = <<[name |-> "Reports", extensions |-> "pdf"]>>
    /\ customPlaceholders = <<jiraDef>>
    /\ storage.categoryRules = categoryRules
    /\ storage.customPlaceholders = customPlaceholders
    /\ userPattern = "{jira_id}{date}{ext}"
    /\ suggested = <<"ABC-12320240115.PDF">>

\* The pattern and separator pairs that were ever together: the initial
\* pair and the pairs the options page saves.
CoherentSettings ==
    {<<DEFAULT_PATTERN, DEFAULT_SEPARATOR>>}
    \cup {<<p.pattern, p.separator>> : p \in SavedSettings}

\* The resolution of the download over the cached configuration as it is.
ResolutionOfSnapshot ==
    sanitizeFilename(
        JoinNonEmpty(placeholdersInPattern(userPattern), ExpectedBag, userSeparator)
        \o BagExtension(ExpectedBag))

InstallDefaults ==
    [enabled |-> true, pattern |-> DEFAULT_PATTERN, separator |-> DEFAULT_SEPARATOR]

\* C21: when the onInstalled handler finishes, each of enabled, pattern and
\* separator that had a stored value keeps it (also a value written between
\* the handler's read and its write), and each that was unset has its
\* default.
C21_InstallKeepsStoredSettings ==
    [][(installer.state = "reading" /\ installer'.state = "done") =>
          \A k \in {"enabled", "pattern", "separator"} :
              storage'[k] = IF storage[k] # undefined THEN storage[k]
                            ELSE InstallDefaults[k]
      ]_vars

\* The 1-based position of the last '.' of a name that has one.
LastDot(filename) ==
    CHOOSE i \in 1..Len(filename) :
        /\ CharAt(filename, i) = "."
        /\ \A j \in (i + 1)..Len(filename) : CharAt(filename, j) # "."

BeforeLastDot(filename) == SubSeq(filename, 1, LastDot(filename) - 1)
FromLastDot(filename) == SubSeq(filename, LastDot(filename), Len(filename))
AfterLastDot(filename) == SubSeq(filename, LastDot(filename) + 1, Len(filename))

\* The name and extension are the texts before and from the last dot, and
\* the category is the one of the lower-cased text after it.
SplitsAtLastDot(filename, customRules, category) ==
    /\ splitFilename(filename).name = BeforeLastDot(filename)
    /\ splitFilename(filename).ext = FromLastDot(filename)
    /\ category = IF AfterLastDot(filename) = "" THEN "unknown"
                  ELSE findCategory(RulesUsed(customRules),
                                    toLowerCase(AfterLastDot(filename)))

\* C22 as stated: for every filename that contains a '.', wherever it
\* stands, the extension is the text from the last '.' on and the name is
\* the text before it.
C22_SplitAtLastDotAnywhere ==
    (output # <<>> /\ ~NoDot(input.filename)) =>
        SplitsAtLastDot(input.filename, input.customRules, output[1])

\* C22 amended: the same for every filename whose last '.' is not its first
\* character; a name whose only dot leads it has no extension.
C22_SplitAtLastDotNotLeading ==
    /\ (output # <<>> /\ ~NoDot(input.filename) /\ LastDot(input.filename) > 1) =>
          SplitsAtLastDot(input.filename, input.customRules, output[1])
    /\ (output # <<>> /\ ~NoDot(input.filename) /\ LastDot(input.filename) = 1) =>
          /\ splitFilename(input.filename) = [name |-> input.filename, ext |-> ""]
          /\ output = <<"unknown">>

\* Two dots, and a mixed-case extension a rule lists in lower case.
C22_Witness ==
    /\ input.filename = "a.b.Txt"
    /\ input.customRules = <<[name |-> "Docs", extensions |-> "pdf"],
                             [name |-> "Text", extensions |-> " Txt "]>>
    /\ output = <<"Text">>

\* What the storage callback of line 45 computes from the storage as it is.
InitialLoadRule ==
    [enabled |-> IF storage.enabled # undefined THEN storage.enabled ELSE true,
     pattern |-> IF Truthy(storage.pattern) THEN storage.pattern ELSE DEFAULT_PATTERN,
     separator |-> IF storage.separator # undefined
                   THEN storage.separator ELSE DEFAULT_SEPARATOR,
     categoryRules |-> IF isArray(storage.categoryRules)
                       THEN storage.categoryRules ELSE DEFAULT_CATEGORY_RULES_SW,
     customPlaceholders |-> IF isDefinitionArray(storage.customPlaceholders)
                            THEN storage.customPlaceholders ELSE <<>>]

\* C23: once the storage callback has run and no change event is pending,
\* each cached setting is what the initial-load rule gives for the storage:
\* the stored value, or the default when the key is absent.
C23_CacheFollowsStorage ==
    (worker = "running" /\ changes = <<>>) =>
        /\ isEnabled = InitialLoadRule.enabled
        /\ userPattern = InitialLoadRule.pattern
        /\ userSeparator = InitialLoadRule.separator
        /\ categoryRules = InitialLoadRule.categoryRules
        /\ customPlaceholders = InitialLoadRule.customPlaceholders

\* C24: a download handled while the stored enabled setting is false is
\* given its original filename, also before the storage callback has run.
C24_StoredDisabledKeepsName ==
    [][(Invocation /\ storage.enabled = false) =>
          suggested' = <<downloadItem.filename>>]_vars

\* C25: every enabled resolution suggests a name that ends with the
\* extension splitFilename gives for the downloaded file, whatever the
\* pattern and the custom definitions are.
C25_ExtensionPreserved ==
    (pc = "returned" /\ Truthy(isEnabled)) =>
        /\ suggested # <<>>
        /\ EndsWith(suggested[1], splitFilename(downloadItem.filename).ext)

\* C26: for a non-empty original filename every suggestion of
\* processDownload is non-empty, whatever the pattern and the values are.
C26_SuggestionNonEmpty ==
    (pc = "returned" /\ downloadItem.filename # "") =>
        /\ suggested # <<>>
        /\ \A i \in 1..Len(suggested) : suggested[i] # ""

\* The names the valid definitions of a list define.
DefinedNames(defs) == {defs[i].name : i \in 1..Len(defs)}

\* C30: on the same definitions and base values the preview shows, for
\* every custom placeholder, the value the download-time loop derives when
\* that value is non-empty, and {name} when it is empty.
C30_PreviewAgreesWithEngine ==
    (tab # pageClosed /\ output # <<>>) =>
        \A n \in DefinedNames(input.defs) :
            previewShown(tab.resolvedValues, n) =
                IF output[1].placeholders[n] # ""
                THEN output[1].placeholders[n]
                ELSE "{" \o n \o "}"

\* C27: in a tab that has initialised, once no change event and no
\* removal timer is pending, the floating icon is present iff the stored
\* showFloatingIcon says so (a key never stored counts as true).
C27_IconFollowsStoredSetting ==
    \A i \in 1..NumTabs :
        (tab[i].phase = "ready" /\ changes[i] = <<>> /\ tab[i].timers = 0) =>
            (tab[i].floatingIcon <=> storage.showFloatingIcon # false)

\* A comma-separated list of alphanumeric tokens.
IsTokenList(s) ==
    /\ s # ""
    /\ \A i \in 1..Len(s) :
          CharAt(s, i) \in UpperSet \cup LowerSet \cup Digits \cup {","}
    /\ CharAt(s, 1) # "," /\ CharAt(s, Len(s)) # ","
    /\ \A i \in 1..(Len(s) - 1) : ~(CharAt(s, i) = "," /\ CharAt(s, i + 1) = ",")

\* C28: the category rules in storage always have a non-empty name and
\* non-empty extensions, names that differ ignoring case, and extensions
\* that are a comma-separated list of alphanumeric tokens.
C28_StoredRulesValid ==
    LET rules == storage.categoryRules
    IN  /\ \A i \in 1..Len(rules) :
              /\ rules[i].name # ""
              /\ rules[i].extensions # ""
              /\ IsTokenList(rules[i].extensions)
        /\ \A i, j \in 1..Len(rules) :
              i # j => ~EqualIgnoringCase(rules[i].name, rules[j].name)

\* C29: in the pattern builder no placeholder is both in the available
\* list and in the pattern sequence, every known placeholder is in one of
\* the two, and every block of the sequence names a known placeholder.
C29_BuilderListsPartitionKnown ==
    /\ Elements(editor.availableBlocksList) \cap Elements(editor.patternSequence) = {}
    /\ Elements(editor.PLACEHOLDERS) \subseteq
          Elements(editor.availableBlocksList) \cup Elements(editor.patternSequence)
    /\ Elements(editor.patternSequence) \subseteq Elements(editor.PLACEHOLDERS)

====
